---- MODULE Spec2Model ----
(***************************************************************************)
(* A model of the digital business-card page: the share-link codec         *)
(* (js/utils.js, js/storage.js, js/share.js), the page session             *)
(* (js/main.js), the QR request with its deadline (js/share.js) and the    *)
(* image crop tool (settings module).                                      *)
(*                                                                         *)
(* JavaScript strings are sequences of UTF-16 code units (naturals).       *)
(* JavaScript values are records [t, s, n, o]: t is the type tag, s the    *)
(* content of a string, n the value of a number or boolean (0/1), o the    *)
(* members of an object as a sequence of <<key, value>> in insertion       *)
(* order.                                                                  *)
(***************************************************************************)
EXTENDS Integers, Sequences, FiniteSets, TLC

(***************************************************************************)
(* Text                                                                    *)
(***************************************************************************)

\* The printable ASCII characters in code order: 32 (space) to 95 (_), and
\* 97 (a) to 126 (~).
AsciiLow == " !\"#$%&'()*+,-./0123456789:;<=>?@ABCDEFGHIJKLMNOPQRSTUVWXYZ[\\]^_"
AsciiHigh == "abcdefghijklmnopqrstuvwxyz{|}~"

\* The code unit of a one-character string.
CodeOf(c) ==
  IF \E i \in 1..64 : SubSeq(AsciiLow, i, i) = c
  THEN 31 + CHOOSE i \in 1..64 : SubSeq(AsciiLow, i, i) = c
  ELSE 96 + CHOOSE i \in 1..30 : SubSeq(AsciiHigh, i, i) = c

\* A string literal as a sequence of code units.
Str(lit) == [i \in 1..Len(lit) |-> CodeOf(SubSeq(lit, i, i))]

\* The concatenation of the sequences f[lo], ..., f[hi].
RECURSIVE Cat(_, _, _)
Cat(f, lo, hi) ==
  IF lo > hi THEN <<>>
  ELSE IF lo = hi THEN f[lo]
  ELSE LET mid == (lo + hi) \div 2
       IN  Cat(f, lo, mid) \o Cat(f, mid + 1, hi)

Flat(f) == Cat(f, 1, Len(f))

\* The element of a one-element set.  The({e(v) : v \in {x}}) is e(x) with x
\* worked out once.
The(S) == CHOOSE r \in S : TRUE

StartsWith(s, p) == Len(s) >= Len(p) /\ SubSeq(s, 1, Len(p)) = p

IsDigit(c) == c >= 48 /\ c <= 57
IsUpper(c) == c >= 65 /\ c <= 90
IsLower(c) == c >= 97 /\ c <= 122
IsHexDigit(c) == IsDigit(c) \/ (c >= 65 /\ c <= 70) \/ (c >= 97 /\ c <= 102)

HexVal(c) == IF IsDigit(c) THEN c - 48 ELSE IF c >= 97 THEN c - 87 ELSE c - 55
HexUpper(d) == IF d < 10 THEN 48 + d ELSE 55 + d
HexLower(d) == IF d < 10 THEN 48 + d ELSE 87 + d

IsHighSurrogate(c) == c >= 55296 /\ c <= 56319
IsLowSurrogate(c) == c >= 56320 /\ c <= 57343

\* Unit i of s is the second half of a surrogate pair.
PairedLow(s, i) == i > 1 /\ IsLowSurrogate(s[i]) /\ IsHighSurrogate(s[i - 1])
\* Unit i of s is the first half of a surrogate pair.
PairedHigh(s, i) == i < Len(s) /\ IsHighSurrogate(s[i]) /\ IsLowSurrogate(s[i + 1])

(***************************************************************************)
(* JavaScript values                                                       *)
(***************************************************************************)

Undefined == [t |-> "undefined", s |-> <<>>, n |-> 0, o |-> <<>>]
Null == [t |-> "null", s |-> <<>>, n |-> 0, o |-> <<>>]
Bool(b) == [t |-> "boolean", s |-> <<>>, n |-> IF b THEN 1 ELSE 0, o |-> <<>>]
Num(k) == [t |-> "number", s |-> <<>>, n |-> k, o |-> <<>>]
StrV(s) == [t |-> "string", s |-> s, n |-> 0, o |-> <<>>]
Obj(members) == [t |-> "object", s |-> <<>>, n |-> 0, o |-> members]

\* v.k is a TypeError for these.
IsNullish(v) == v.t \in {"undefined", "null"}

\* ToBoolean(v).
Truthy(v) ==
  CASE v.t = "string" -> v.s # <<>>
    [] v.t = "number" -> v.n # 0
    [] v.t = "boolean" -> v.n = 1
    [] v.t = "object" -> TRUE
    [] OTHER -> FALSE

HasKey(v, k) == v.t = "object" /\ \E i \in 1..Len(v.o) : v.o[i][1] = k

\* v[k] for a v that is not nullish: the member's value, undefined when v has
\* no such member (the own properties of primitives, such as a string's
\* length, are not among the keys the program reads).
Get(v, k) ==
  IF HasKey(v, k)
  THEN v.o[CHOOSE i \in 1..Len(v.o) : v.o[i][1] = k][2]
  ELSE Undefined

\* v?.[k]
GetOpt(v, k) == IF IsNullish(v) THEN Undefined ELSE Get(v, k)

\* a || b
OrElse(a, b) == IF Truthy(a) THEN a ELSE b

\* { ...v, k: x }: the members of v (none for a nullish or primitive v), with
\* k set to x in place when v has k and appended otherwise.
SpreadWith(v, k, x) ==
  LET ms == IF v.t = "object" THEN v.o ELSE <<>>
  IN  IF \E i \in 1..Len(ms) : ms[i][1] = k
      THEN Obj([i \in 1..Len(ms) |-> IF ms[i][1] = k THEN <<k, x>> ELSE ms[i]])
      ELSE Obj(Append(ms, <<k, x>>))

\* The decimal digits of a natural number.
RECURSIVE Digits(_)
Digits(k) == IF k < 10 THEN <<48 + k>> ELSE Append(Digits(k \div 10), 48 + (k % 10))

\* String(v) of a template literal, for the types the view meets.
ToStr(v) ==
  CASE v.t = "string" -> v.s
    [] v.t = "undefined" -> Str("undefined")
    [] v.t = "null" -> Str("null")
    [] v.t = "boolean" -> IF v.n = 1 THEN Str("true") ELSE Str("false")
    [] v.t = "number" -> IF v.n < 0 THEN <<45>> \o Digits(0 - v.n) ELSE Digits(v.n)
    [] OTHER -> Str("[object Object]")

(***************************************************************************)
(* JSON.stringify                                                          *)
(***************************************************************************)

\* \uXXXX with lower-case hex digits.
UnicodeEscape(c) ==
  <<92, 117, HexLower(c \div 4096), HexLower((c \div 256) % 16),
    HexLower((c \div 16) % 16), HexLower(c % 16)>>

\* QuoteJSONString, one code unit: the two-character escapes, \uXXXX for the
\* other control characters and for a lone surrogate, the unit itself
\* otherwise.
QuoteUnit(s, i) ==
  LET c == s[i]
  IN  CASE c = 8 -> <<92, 98>>
        [] c = 9 -> <<92, 116>>
        [] c = 10 -> <<92, 110>>
        [] c = 12 -> <<92, 102>>
        [] c = 13 -> <<92, 114>>
        [] c = 34 -> <<92, 34>>
        [] c = 92 -> <<92, 92>>
        [] OTHER ->
             IF c < 32 THEN UnicodeEscape(c)
             ELSE IF IsHighSurrogate(c) /\ ~PairedHigh(s, i) THEN UnicodeEscape(c)
             ELSE IF IsLowSurrogate(c) /\ ~PairedLow(s, i) THEN UnicodeEscape(c)
             ELSE <<c>>

QuoteJSONString(s) == <<34>> \o Flat([i \in 1..Len(s) |-> QuoteUnit(s, i)]) \o <<34>>

IsDefined(m) == m[2].t # "undefined"

\* JSON.stringify(v) of a value that is not undefined: the members of an
\* object in insertion order, those whose value is undefined left out.
RECURSIVE JSONStringify(_)
JSONStringify(v) ==
  CASE v.t = "string" -> QuoteJSONString(v.s)
    [] v.t = "number" -> ToStr(v)
    [] v.t = "boolean" -> ToStr(v)
    [] v.t = "object" ->
         LET ms == SelectSeq(v.o, IsDefined)
             piece(i) == (IF i > 1 THEN <<44>> ELSE <<>>)
                           \o QuoteJSONString(ms[i][1]) \o <<58>>
                           \o JSONStringify(ms[i][2])
         IN  <<123>> \o Flat([i \in 1..Len(ms) |-> piece(i)]) \o <<125>>
    [] OTHER -> Str("null")

(***************************************************************************)
(* The host's text transforms: encodeURIComponent, unescape, btoa and      *)
(* their inverses atob, escape, decodeURIComponent.  A result is           *)
(* [ok, v]: ok is FALSE when the call throws.                              *)
(***************************************************************************)

Ok(v) == [ok |-> TRUE, v |-> v]
Thrown == [ok |-> FALSE, v |-> <<>>]

PercentByte(b) == <<37, HexUpper(b \div 16), HexUpper(b % 16)>>

\* The UTF-8 bytes of a code point.
Utf8(cp) ==
  IF cp < 128 THEN <<cp>>
  ELSE IF cp < 2048 THEN <<192 + (cp \div 64), 128 + (cp % 64)>>
  ELSE IF cp < 65536
       THEN <<224 + (cp \div 4096), 128 + ((cp \div 64) % 64), 128 + (cp % 64)>>
  ELSE <<240 + (cp \div 262144), 128 + ((cp \div 4096) % 64),
         128 + ((cp \div 64) % 64), 128 + (cp % 64)>>

\* uriUnreserved: letters, digits and - _ . ! ~ * ' ( )
IsUriUnreserved(c) ==
  IsDigit(c) \/ IsUpper(c) \/ IsLower(c) \/ c \in {45, 95, 46, 33, 126, 42, 39, 40, 41}

EncodeUnit(s, i) ==
  LET c == s[i]
      cp == IF PairedHigh(s, i)
            THEN 65536 + (c - 55296) * 1024 + (s[i + 1] - 56320)
            ELSE c
      bytes == Utf8(cp)
  IN  IF PairedLow(s, i) THEN <<>>
      ELSE IF IsUriUnreserved(c) THEN <<c>>
      ELSE Flat([k \in 1..Len(bytes) |-> PercentByte(bytes[k])])

LoneSurrogate(s, i) ==
  \/ IsHighSurrogate(s[i]) /\ ~PairedHigh(s, i)
  \/ IsLowSurrogate(s[i]) /\ ~PairedLow(s, i)

\* encodeURIComponent(s): URIError on a lone surrogate.
EncodeURIComponent(s) ==
  IF \E i \in 1..Len(s) : LoneSurrogate(s, i) THEN Thrown
  ELSE Ok(Flat([i \in 1..Len(s) |-> EncodeUnit(s, i)]))

\* unescape: %uXXXX and %XX become one code unit, anything else is kept.
IsEscape6(s, k) ==
  /\ k + 5 <= Len(s) /\ s[k] = 37 /\ s[k + 1] = 117
  /\ \A d \in 2..5 : IsHexDigit(s[k + d])
IsEscape3(s, k) ==
  /\ k + 2 <= Len(s) /\ s[k] = 37 /\ ~IsEscape6(s, k)
  /\ IsHexDigit(s[k + 1]) /\ IsHexDigit(s[k + 2])
InsideEscape(s, p) ==
  \E d \in 1..5 :
     /\ p - d >= 1
     /\ IsEscape6(s, p - d) \/ (d <= 2 /\ IsEscape3(s, p - d))

UnescapeUnit(s, p) ==
  IF InsideEscape(s, p) THEN <<>>
  ELSE IF IsEscape6(s, p)
       THEN <<HexVal(s[p + 2]) * 4096 + HexVal(s[p + 3]) * 256
                + HexVal(s[p + 4]) * 16 + HexVal(s[p + 5])>>
  ELSE IF IsEscape3(s, p) THEN <<HexVal(s[p + 1]) * 16 + HexVal(s[p + 2])>>
  ELSE <<s[p]>>

Unescape(s) == Flat([p \in 1..Len(s) |-> UnescapeUnit(s, p)])

\* The base64 alphabet: A-Z a-z 0-9 + /
B64Char(v) ==
  IF v < 26 THEN 65 + v
  ELSE IF v < 52 THEN 97 + (v - 26)
  ELSE IF v < 62 THEN 48 + (v - 52)
  ELSE IF v = 62 THEN 43 ELSE 47

IsB64Char(c) == IsUpper(c) \/ IsLower(c) \/ IsDigit(c) \/ c = 43 \/ c = 47

B64Val(c) ==
  IF IsUpper(c) THEN c - 65
  ELSE IF IsLower(c) THEN c - 97 + 26
  ELSE IF IsDigit(c) THEN c - 48 + 52
  ELSE IF c = 43 THEN 62 ELSE 63

\* The four characters of the g-th group of three bytes, padded with =.
B64Group(s, g) ==
  LET n == Len(s)
      i == 3 * g - 2
      b1 == s[i]
      b2 == IF i + 1 <= n THEN s[i + 1] ELSE 0
      b3 == IF i + 2 <= n THEN s[i + 2] ELSE 0
  IN  << B64Char(b1 \div 4),
         B64Char((b1 % 4) * 16 + (b2 \div 16)),
         IF i + 1 <= n THEN B64Char((b2 % 16) * 4 + (b3 \div 64)) ELSE 61,
         IF i + 2 <= n THEN B64Char(b3 % 64) ELSE 61 >>

\* btoa(s): InvalidCharacterError on a code unit above 255.
Btoa(s) ==
  IF \E i \in 1..Len(s) : s[i] > 255 THEN Thrown
  ELSE Ok(Flat([g \in 1..((Len(s) + 2) \div 3) |-> B64Group(s, g)]))

IsAsciiWhitespace(c) == c \in {9, 10, 12, 13, 32}
NotAsciiWhitespace(c) == ~IsAsciiWhitespace(c)

\* The bytes of the g-th group of up to four base64 characters; a last group
\* of two or three characters gives one or two bytes, the left-over bits
\* discarded.
B64Bytes(d, g) ==
  LET n == Len(d)
      i == 4 * g - 3
      v(k) == IF i + k <= n THEN B64Val(d[i + k]) ELSE 0
      all == << v(0) * 4 + (v(1) \div 16),
                (v(1) % 16) * 16 + (v(2) \div 4),
                (v(2) % 4) * 64 + v(3) >>
      have == IF i + 3 <= n THEN 3 ELSE (n - i + 1) - 1
  IN  SubSeq(all, 1, have)

\* atob(s), the forgiving-base64 decode: ASCII whitespace is removed; one or
\* two = are removed from the end when the length is a multiple of four; a
\* length of 1 modulo 4 or a character outside the alphabet is an
\* InvalidCharacterError.
Atob(s) ==
  LET w == SelectSeq(s, NotAsciiWhitespace)
      n == Len(w)
      cut == IF n > 0 /\ n % 4 = 0
             THEN IF w[n] = 61 THEN (IF w[n - 1] = 61 THEN 2 ELSE 1) ELSE 0
             ELSE 0
      d == SubSeq(w, 1, n - cut)
  IN  IF Len(d) % 4 = 1 THEN Thrown
      ELSE IF \E i \in 1..Len(d) : ~IsB64Char(d[i]) THEN Thrown
      ELSE Ok(Flat([g \in 1..((Len(d) + 3) \div 4) |-> B64Bytes(d, g)]))

\* escape: letters, digits and @ * _ + - . / are kept
IsEscapeSafe(c) ==
  IsDigit(c) \/ IsUpper(c) \/ IsLower(c) \/ c \in {64, 42, 95, 43, 45, 46, 47}

EscapeUnit(c) ==
  IF IsEscapeSafe(c) THEN <<c>>
  ELSE IF c < 256 THEN PercentByte(c)
  ELSE <<37, 117, HexUpper(c \div 4096), HexUpper((c \div 256) % 16),
         HexUpper((c \div 16) % 16), HexUpper(c % 16)>>

Escape(s) == Flat([i \in 1..Len(s) |-> EscapeUnit(s[i])])

\* decodeURIComponent, first pass: the characters and the escaped bytes of s.
\* An item is [b, c]: b is TRUE for a byte written %XX.
BadPercent(s, p) ==
  s[p] = 37 /\ ~(p + 2 <= Len(s) /\ IsHexDigit(s[p + 1]) /\ IsHexDigit(s[p + 2]))

PercentItem(s, p) ==
  IF (p > 1 /\ s[p - 1] = 37) \/ (p > 2 /\ s[p - 2] = 37) THEN <<>>
  ELSE IF s[p] = 37
       THEN <<[b |-> TRUE, c |-> HexVal(s[p + 1]) * 16 + HexVal(s[p + 2])]>>
  ELSE <<[b |-> FALSE, c |-> s[p]]>>

IsContinuation(it) == it.b /\ it.c >= 128 /\ it.c <= 191

\* The length of the UTF-8 sequence a byte leads (0: it leads none).
LeadLength(c) ==
  IF c >= 192 /\ c <= 223 THEN 2
  ELSE IF c >= 224 /\ c <= 239 THEN 3
  ELSE IF c >= 240 /\ c <= 247 THEN 4
  ELSE 0

\* Item i is a continuation byte of a sequence led by an earlier item.
ClaimedContinuation(items, i) ==
  \E j \in 1..3 :
     /\ i - j >= 1
     /\ items[i - j].b /\ LeadLength(items[i - j].c) > j
     /\ \A m \in 1..(j - 1) : IsContinuation(items[i - m])

\* The code point of the sequence led by item i.
LedCodePoint(items, i) ==
  LET n == LeadLength(items[i].c)
      c(k) == items[i + k].c % 64
  IN  IF n = 2 THEN (items[i].c % 32) * 64 + c(1)
      ELSE IF n = 3 THEN (items[i].c % 16) * 4096 + c(1) * 64 + c(2)
      ELSE (items[i].c % 8) * 262144 + c(1) * 4096 + c(2) * 64 + c(3)

\* Item i leads a well-formed UTF-8 sequence of a Unicode scalar value.
GoodLead(items, i) ==
  LET n == LeadLength(items[i].c)
  IN  /\ n > 0
      /\ i + n - 1 <= Len(items)
      /\ \A k \in 1..(n - 1) : IsContinuation(items[i + k])
      /\ LET cp == LedCodePoint(items, i)
         IN  /\ cp >= (IF n = 2 THEN 128 ELSE IF n = 3 THEN 2048 ELSE 65536)
             /\ cp <= 1114111
             /\ ~(cp >= 55296 /\ cp <= 57343)

BadItem(items, i) ==
  /\ items[i].b
  /\ items[i].c >= 128
  /\ IF IsContinuation(items[i]) THEN ~ClaimedContinuation(items, i)
     ELSE ~GoodLead(items, i)

DecodedItem(items, i) ==
  IF ~items[i].b \/ items[i].c < 128 THEN <<items[i].c>>
  ELSE IF IsContinuation(items[i]) THEN <<>>
  ELSE LET cp == LedCodePoint(items, i)
       IN  IF cp < 65536 THEN <<cp>>
           ELSE <<55296 + ((cp - 65536) \div 1024), 56320 + ((cp - 65536) % 1024)>>

\* decodeURIComponent(s): URIError on a % not followed by two hex digits and
\* on escaped bytes that are not well-formed UTF-8.
DecodeURIComponent(s) ==
  IF \E p \in 1..Len(s) : BadPercent(s, p) THEN Thrown
  ELSE LET items == Flat([p \in 1..Len(s) |-> PercentItem(s, p)])
       IN  IF \E i \in 1..Len(items) : BadItem(items, i) THEN Thrown
           ELSE Ok(Flat([i \in 1..Len(items) |-> DecodedItem(items, i)]))

(***************************************************************************)
(* JSON.parse, for objects, strings, integers, true, false and null (the   *)
(* values the page's tokens hold; an array or a number with a fraction or  *)
(* an exponent is not among them and is reported as a syntax error).       *)
(* A parse result is [ok, v, next]: next is the index after the value.     *)
(***************************************************************************)

NoParse == [ok |-> FALSE, v |-> Undefined, next |-> 0]
Parsed(v, next) == [ok |-> TRUE, v |-> v, next |-> next]

\* The number of backslashes that immediately precede position p.
RECURSIVE BackslashRun(_, _)
BackslashRun(s, p) ==
  IF p > 1 /\ s[p - 1] = 92 THEN 1 + BackslashRun(s, p - 1) ELSE 0

IsEscaped(s, p) == BackslashRun(s, p) % 2 = 1

\* The positions of the quotes that open or close a string.
StringQuotes(s) ==
  LET isQuote(p) == s[p] = 34 /\ ~IsEscaped(s, p)
  IN  SelectSeq([p \in 1..Len(s) |-> p], isQuote)

\* The character an escape \c stands for (0: no such escape).
SimpleEscape(c) ==
  CASE c = 34 -> 34
    [] c = 92 -> 92
    [] c = 47 -> 47
    [] c = 98 -> 8
    [] c = 102 -> 12
    [] c = 110 -> 10
    [] c = 114 -> 13
    [] c = 116 -> 9
    [] OTHER -> 0

\* Position p is the u of an escape \uXXXX.
IsUnicodeEscape(s, p) == s[p] = 117 /\ IsEscaped(s, p)

InsideUnicodeEscape(s, p) == \E d \in 1..4 : p - d >= 1 /\ IsUnicodeEscape(s, p - d)

\* The string body s[lo..hi] has a raw control character, an unknown escape
\* or a \u without four hex digits at p.
BadStringUnit(s, p, hi) ==
  \/ s[p] < 32
  \/ /\ IsEscaped(s, p)
     /\ IF s[p] = 117
        THEN ~(p + 4 <= hi /\ \A d \in 1..4 : IsHexDigit(s[p + d]))
        ELSE SimpleEscape(s[p]) = 0

StringUnit(s, p) ==
  IF IsEscaped(s, p)
  THEN IF s[p] = 117
       THEN <<HexVal(s[p + 1]) * 4096 + HexVal(s[p + 2]) * 256
                + HexVal(s[p + 3]) * 16 + HexVal(s[p + 4])>>
       ELSE <<SimpleEscape(s[p])>>
  ELSE IF s[p] = 92 \/ InsideUnicodeEscape(s, p) THEN <<>>
  ELSE <<s[p]>>

\* The string that opens at quote i: it closes at the next quote of Q.
ParseString(s, Q, i) ==
  LET m == CHOOSE k \in 1..Len(Q) : Q[k] = i
  IN  IF m = Len(Q) THEN NoParse
      ELSE LET j == Q[m + 1]
           IN  IF \E p \in (i + 1)..(j - 1) : BadStringUnit(s, p, j - 1)
               THEN NoParse
               ELSE Parsed(StrV(Flat([k \in 1..(j - 1 - i) |-> StringUnit(s, i + k)])),
                           j + 1)

IsJSONWhitespace(c) == c \in {9, 10, 13, 32}

RECURSIVE SkipWhitespace(_, _)
SkipWhitespace(s, i) ==
  IF i <= Len(s) /\ IsJSONWhitespace(s[i]) THEN SkipWhitespace(s, i + 1) ELSE i

RECURSIVE DigitsEnd(_, _)
DigitsEnd(s, i) == IF i <= Len(s) /\ IsDigit(s[i]) THEN DigitsEnd(s, i + 1) ELSE i

RECURSIVE DigitsValue(_, _, _)
DigitsValue(s, i, j) ==
  IF i >= j THEN 0 ELSE DigitsValue(s, i, j - 1) * 10 + (s[j - 1] - 48)

\* An integer at i: -?(0|[1-9][0-9]*) not followed by a fraction or exponent.
ParseNumber(s, i) ==
  LET neg == s[i] = 45
      a == IF neg THEN i + 1 ELSE i
      b == DigitsEnd(s, a)
  IN  IF b = a \/ (s[a] = 48 /\ b > a + 1) THEN NoParse
      ELSE IF b <= Len(s) /\ s[b] \in {46, 69, 101} THEN NoParse
      ELSE Parsed(Num(IF neg THEN 0 - DigitsValue(s, a, b) ELSE DigitsValue(s, a, b)), b)

ParseLiteral(s, i, word, v) ==
  IF i + Len(word) - 1 <= Len(s) /\ SubSeq(s, i, i + Len(word) - 1) = word
  THEN Parsed(v, i + Len(word))
  ELSE NoParse

RECURSIVE ParseValue(_, _, _)
RECURSIVE ParseMembers(_, _, _, _)

ParseValue(s, Q, from) ==
  LET i == SkipWhitespace(s, from)
  IN  IF i > Len(s) THEN NoParse
      ELSE CASE s[i] = 34 -> ParseString(s, Q, i)
             [] s[i] = 123 ->
                  LET k == SkipWhitespace(s, i + 1)
                  IN  IF k <= Len(s) /\ s[k] = 125 THEN Parsed(Obj(<<>>), k + 1)
                      ELSE ParseMembers(s, Q, k, Obj(<<>>))
             [] s[i] = 116 -> ParseLiteral(s, i, Str("true"), Bool(TRUE))
             [] s[i] = 102 -> ParseLiteral(s, i, Str("false"), Bool(FALSE))
             [] s[i] = 110 -> ParseLiteral(s, i, Str("null"), Null)
             [] s[i] = 45 \/ IsDigit(s[i]) -> ParseNumber(s, i)
             [] OTHER -> NoParse

\* The members of an object from the key at i on; a key met again keeps its
\* place and takes the later value.
ParseMembers(s, Q, i, acc) ==
  IF i > Len(s) \/ s[i] # 34 THEN NoParse
  ELSE LET key == ParseString(s, Q, i)
           colon == IF key.ok THEN SkipWhitespace(s, key.next) ELSE 0
       IN  IF ~key.ok \/ colon > Len(s) \/ s[colon] # 58 THEN NoParse
           ELSE LET val == ParseValue(s, Q, colon + 1)
                    after == IF val.ok THEN SkipWhitespace(s, val.next) ELSE 0
                    obj == SpreadWith(acc, key.v.s, val.v)
                IN  IF ~val.ok \/ after > Len(s) THEN NoParse
                    ELSE IF s[after] = 125 THEN Parsed(obj, after + 1)
                    ELSE IF s[after] = 44
                         THEN ParseMembers(s, Q, SkipWhitespace(s, after + 1), obj)
                    ELSE NoParse

\* JSON.parse(s): [ok, v], ok FALSE for a SyntaxError.
JSONParse(s) ==
  LET r == ParseValue(s, StringQuotes(s), 1)
  IN  IF r.ok /\ SkipWhitespace(s, r.next) = Len(s) + 1
      THEN [ok |-> TRUE, v |-> r.v]
      ELSE [ok |-> FALSE, v |-> Undefined]

(***************************************************************************)
(* js/utils.js: encodeObj and decodeObj                                    *)
(***************************************************************************)

\* encodeObj without the UTF-8 step: btoa(JSON.stringify(obj)).
encodeObjNoUtf8(obj) == Btoa(JSONStringify(obj))

\* btoa(unescape(encodeURIComponent(JSON.stringify(obj)))): [ok, v].
encodeObj(obj) ==
  LET uri == EncodeURIComponent(JSONStringify(obj))
  IN  IF uri.ok THEN Btoa(Unescape(uri.v)) ELSE Thrown

\* JSON.parse(decodeURIComponent(escape(atob(str)))): [ok, v], ok FALSE when
\* any of the three calls throws.
\* decodeObj that answers {} where decodeObj throws.
decodeObjLenient(str) ==
  LET bytes == Atob(str)
      text == IF bytes.ok THEN DecodeURIComponent(Escape(bytes.v)) ELSE Thrown
      value == IF text.ok THEN JSONParse(text.v) ELSE [ok |-> FALSE, v |-> Undefined]
  IN  IF value.ok THEN value ELSE [ok |-> TRUE, v |-> Obj(<<>>)]

decodeObj(str) ==
  LET bytes == Atob(str)
      text == IF bytes.ok THEN DecodeURIComponent(Escape(bytes.v)) ELSE Thrown
  IN  IF text.ok THEN JSONParse(text.v) ELSE [ok |-> FALSE, v |-> Undefined]

(***************************************************************************)
(* Cards                                                                   *)
(***************************************************************************)

kFirstName == Str("firstName")
kLastName == Str("lastName")
kJobTitle == Str("jobTitle")
kEmail == Str("email")
kPhone == Str("phone")
kPhoneE164 == Str("phoneE164")
kCountryCode == Str("countryCode")
kLocalNumber == Str("localNumber")
kLinkedin == Str("linkedin")
kCardColor == Str("cardColor")
kBgColor == Str("bgColor")
kProfilePic == Str("profilePic")
kPortfolioLinks == Str("portfolioLinks")
kPortfolioVisibility == Str("portfolioVisibility")
kLastUpdated == Str("lastUpdated")
kSavedAt == Str("savedAt")
kCert == Str("cert")
kEdu == Str("edu")
kProj == Str("proj")
kRef == Str("ref")
kResume == Str("resume")
kWork == Str("work")
kPdf == Str("pdf")
kDocx == Str("docx")

EmptyStr == StrV(<<>>)

\* { pdf: pdf, docx: docx }
ResumeObj(pdf, docx) == Obj(<< <<kPdf, pdf>>, <<kDocx, docx>> >>)

\* { cert: true, edu: true, proj: true, ref: true, resume: true, work: true }
AllVisible ==
  Obj(<< <<kCert, Bool(TRUE)>>, <<kEdu, Bool(TRUE)>>, <<kProj, Bool(TRUE)>>,
         <<kRef, Bool(TRUE)>>, <<kResume, Bool(TRUE)>>, <<kWork, Bool(TRUE)>> >>)

DEFAULT_CARD ==
  Obj(<< <<kFirstName, StrV(Str("John"))>>,
         <<kLastName, StrV(Str("Doe"))>>,
         <<kJobTitle, StrV(Str("Student"))>>,
         <<kEmail, StrV(Str("john.doe@email.com"))>>,
         <<kPhone, StrV(Str("+1 (555)-123-4567"))>>,
         <<kPhoneE164, StrV(Str("+15551234567"))>>,
         <<kCountryCode, StrV(Str("1"))>>,
         <<kLocalNumber, StrV(Str("5551234567"))>>,
         <<kLinkedin, StrV(Str("https://linkedin.com/in/johndoe"))>>,
         <<kCardColor, StrV(Str("#6366f1"))>>,
         <<kBgColor, StrV(Str("#6B46C1"))>>,
         <<kProfilePic,
           StrV(Str("https://images.unsplash.com/photo-1472099645785-5658abf4ff4e?w=400"))>>,
         <<kPortfolioLinks,
           Obj(<< <<kCert, EmptyStr>>, <<kEdu, EmptyStr>>, <<kProj, EmptyStr>>,
                  <<kRef, EmptyStr>>, <<kResume, ResumeObj(EmptyStr, EmptyStr)>>,
                  <<kWork, EmptyStr>> >>)>>,
         <<kPortfolioVisibility, AllVisible>>,
         <<kLastUpdated, EmptyStr>> >>)

(***************************************************************************)
(* js/storage.js: buildShareObj                                            *)
(***************************************************************************)

\* compressImageForQR(dataUrl): the empty string on either path.
compressImageForQR(dataUrl) == EmptyStr

DataImagePrefix == Str("data:image")

\* v && v.startsWith('data:image'), for a v that is a string or undefined.
IsEmbeddedImage(v) == Truthy(v) /\ v.t = "string" /\ StartsWith(v.s, DataImagePrefix)

\* resumeData of buildShareObj: a string becomes { pdf: it, docx: '' }, a
\* falsy value { pdf: '', docx: '' }, anything else is kept.
NormalResume(resumeData) ==
  IF resumeData.t = "string" THEN ResumeObj(resumeData, EmptyStr)
  ELSE IF ~Truthy(resumeData) THEN ResumeObj(EmptyStr, EmptyStr)
  ELSE resumeData

\* buildShareObj that copies the whole card and leaves resume as stored.
buildShareObjWholeCard(cardData, forQRCode) == cardData

\* buildShareObj(cardData, forQRCode): the object the function returns.
\* cardData is read only: no statement of the function assigns to it or to
\* an object it holds.
buildShareObj(cardData, forQRCode) ==
  LET resumeData == NormalResume(GetOpt(Get(cardData, kPortfolioLinks), kResume))
      profilePicData ==
        IF forQRCode /\ IsEmbeddedImage(Get(cardData, kProfilePic))
        THEN compressImageForQR(Get(cardData, kProfilePic))
        ELSE Get(cardData, kProfilePic)
  IN  Obj(<< <<kFirstName, Get(cardData, kFirstName)>>,
             <<kLastName, Get(cardData, kLastName)>>,
             <<kJobTitle, Get(cardData, kJobTitle)>>,
             <<kEmail, Get(cardData, kEmail)>>,
             <<kPhone, Get(cardData, kPhone)>>,
             <<kPhoneE164, Get(cardData, kPhoneE164)>>,
             <<kLinkedin, Get(cardData, kLinkedin)>>,
             <<kCardColor, Get(cardData, kCardColor)>>,
             <<kBgColor, Get(cardData, kBgColor)>>,
             <<kProfilePic, profilePicData>>,
             <<kPortfolioLinks,
               SpreadWith(Get(cardData, kPortfolioLinks), kResume, resumeData)>>,
             <<kPortfolioVisibility,
               OrElse(Get(cardData, kPortfolioVisibility), AllVisible)>> >>)

(***************************************************************************)
(* The cards of the model: what saveSettings writes, over a few job        *)
(* titles and photos, and the shapes an earlier version of the page left   *)
(* in storage (a resume kept as one string, no resume, no portfolioLinks,  *)
(* no portfolioVisibility, no phoneE164).                                  *)
(***************************************************************************)

RemotePhoto == StrV(Str("https://img.example/p.jpg?w=400"))
EmbeddedPhoto == StrV(Str("data:image/jpeg;base64,/9j/4AAQ+w=="))

\* Job titles: free text.  ASCII, a quote and a backslash, a two-byte and a
\* three-byte character, a surrogate pair, a lone surrogate.
JobTitles ==
  { <<>>, Str("Student"), Str("R&D ~ lead"), Str("a \"b\" \\c"),
    <<67, 97, 102, 233>>, <<8364, 126>>, <<55357, 56832, 126>>, <<55357>> }

Photos == { EmptyStr, RemotePhoto, EmbeddedPhoto }

ResumeShapes == { "two-slot", "string", "absent", "no-links" }
VisibilityShapes == { "set", "all", "absent" }

LinksOf(shape) ==
  LET pre == << <<kCert, StrV(Str("https://c.example/?a=1"))>>, <<kEdu, EmptyStr>>,
                <<kProj, EmptyStr>>, <<kRef, EmptyStr>> >>
      post == << <<kWork, EmptyStr>> >>
  IN  CASE shape = "two-slot" ->
             Obj(pre \o << <<kResume, ResumeObj(StrV(Str("https://r.example/cv.pdf")),
                                                 EmptyStr)>> >> \o post)
        [] shape = "string" ->
             Obj(pre \o << <<kResume, StrV(Str("https://r.example/cv.pdf"))>> >> \o post)
        [] shape = "absent" -> Obj(pre \o post)
        [] OTHER -> Undefined

VisibilityOf(shape) ==
  CASE shape = "set" ->
         Obj(<< <<kCert, Bool(TRUE)>>, <<kEdu, Bool(FALSE)>>, <<kProj, Bool(TRUE)>>,
                <<kRef, Bool(FALSE)>>, <<kResume, Bool(TRUE)>>, <<kWork, Bool(TRUE)>> >>)
    [] shape = "all" -> AllVisible
    [] OTHER -> Undefined

\* A stored card; a member whose value is undefined here is a key the stored
\* record does not have.
CardOf(jobTitle, photo, resume, visibility, e164) ==
  Obj(SelectSeq(
    << <<kFirstName, StrV(Str("Ann"))>>,
       <<kLastName, StrV(Str("O'Neil-Smith"))>>,
       <<kJobTitle, StrV(jobTitle)>>,
       <<kEmail, StrV(Str("ann@x.co"))>>,
       <<kPhone, StrV(Str("+44 (123) 456-7890"))>>,
       <<kPhoneE164, IF e164 THEN StrV(Str("+441234567890")) ELSE Undefined>>,
       <<kCountryCode, StrV(Str("44"))>>,
       <<kLocalNumber, StrV(Str("1234567890"))>>,
       <<kLinkedin, StrV(Str("https://x.example/in/ann"))>>,
       <<kCardColor, StrV(Str("#0a1b2c"))>>,
       <<kBgColor, StrV(Str("#ffffff"))>>,
       <<kProfilePic, photo>>,
       <<kPortfolioLinks, LinksOf(resume)>>,
       <<kPortfolioVisibility, VisibilityOf(visibility)>>,
       <<kLastUpdated, StrV(Str("2025-01-01T00:00:00.000Z"))>> >>,
    IsDefined))

Cards ==
  { CardOf(j, ph, r, v, TRUE) :
      j \in JobTitles, ph \in Photos, r \in ResumeShapes, v \in VisibilityShapes }
  \cup { CardOf(Str("Student"), RemotePhoto, "string", "absent", FALSE), DEFAULT_CARD }

(***************************************************************************)
(* State                                                                   *)
(***************************************************************************)

VARIABLES
  card,        \* codec: the card handed to buildShareObj
  shareObj,    \* codec: what buildShareObj returned
  token,       \* codec: what encodeObj returned, [ok, v]
  decoded,     \* codec: what decodeObj returned, [ok, v]
  pc,          \* codec: the step reached
  myCard,      \* localStorage 'myCard' as getMyCard() returns it (Null: none)
  link,        \* what buildShareUrlFromUI last returned: [url, obj], obj the
               \* record it encoded (Undefined: it encoded none)
  sharePanelActive,  \* #sharePanel has class active
  qrRuns,      \* the calls of generateQRCode that got past the rawCard check
  qrContainer, \* the content of #qrcode: [kind, run, url]
  locationSearch,    \* window.location.search of the page being loaded
  arrival,     \* how locationSearch was made: [kind, sent], sent the record a
               \* share link or QR code encoded (Undefined: hand-made)
  viewingSharedCard, \* js/main.js
  sharedCardData,    \* js/main.js
  view,        \* what the card elements of the document show
  shown,       \* the argument of the last applyCardData call that completed
  form,        \* the values of the settings form
  visitorUI,   \* the save button is shown and the share button hidden
  escaped,     \* an exception left checkForSharedCard
  pagePc,      \* "loading" before DOMContentLoaded, "loaded" after
  cropState,   \* settings module: [originalImage, scale, position, isDragging,
               \* dragStart]
  cropImage,   \* #cropImage: [src, current, pending, width, height, transform],
               \* current the image the element holds (its current request),
               \* while its load event is outstanding
  zoomSlider,  \* #zoomSlider.value
  cropModalActive,   \* #cropModal has class active
  listeners,   \* [bound, mouse]: setupCropListeners has run, and
               \* document.onmousemove and document.onmouseup are set
  reading,     \* the files whose FileReader has not completed
  profilePicInput,   \* #profilePicInput.value
  uploadedImageData, \* what saveCrop stored
  cropSteps,   \* [files, moves]: files selected, pointer moves and slider inputs
  savedContacts,     \* localStorage 'savedContacts' as getSavedContacts()
                     \* returns it
  backToMyCard,      \* #backToMyCardBtn has class show
  lastOp,      \* the last handler that ran: [name, write, alerts, threw], write
               \* what became of its localStorage.setItem call, alerts the
               \* messages it showed, threw whether an exception left it
  sessionSteps,      \* the handlers run in this browser so far
  normaliser   \* a normaliser of js/utils.js at work: [fn, isLastName, input,
               \* outputs], outputs what its successive calls returned

codecVars == <<card, shareObj, token, decoded, pc>>
shareVars == <<myCard, link, sharePanelActive, qrRuns, qrContainer>>
pageVars == <<locationSearch, arrival, viewingSharedCard, sharedCardData, view,
              shown, form, visitorUI, escaped, pagePc>>

cropVars == <<cropState, cropImage, zoomSlider, cropModalActive, listeners,
              reading, profilePicInput, uploadedImageData, cropSteps>>

homeVars == <<savedContacts, backToMyCard, lastOp, sessionSteps>>

utilVars == <<normaliser>>

vars == <<codecVars, shareVars, pageVars, cropVars, homeVars, utilVars>>

\* What an action of one part leaves alone in the others.
exceptCodec == <<shareVars, pageVars, cropVars, homeVars, utilVars>>
exceptShare == <<codecVars, pageVars, cropVars, homeVars, utilVars>>
exceptPage == <<codecVars, link, sharePanelActive, qrRuns, qrContainer, cropVars,
                homeVars, utilVars>>
exceptCrop == <<codecVars, shareVars, pageVars, homeVars, utilVars>>

CodecIdle ==
  /\ card = Undefined
  /\ shareObj = Undefined
  /\ token = Thrown
  /\ decoded = [ok |-> FALSE, v |-> Undefined]
  /\ pc = "idle"

EmptyContainer == [kind |-> "empty", run |-> 0, url |-> <<>>]
NoLink == [url |-> <<>>, obj |-> Undefined]

SharePanelIdle ==
  /\ link = NoLink
  /\ sharePanelActive = FALSE
  /\ qrRuns = <<>>
  /\ qrContainer = EmptyContainer

ShareIdle == myCard = Null /\ SharePanelIdle

\* The document as served: the card elements and the form hold the markup's
\* text, which no action reads.
Markup == <<40, 109, 97, 114, 107, 117, 112, 41>>
MarkupView ==
  [ fullName |-> Markup, jobTitle |-> Markup, linkedinHref |-> Markup,
    linkedinText |-> Markup, phoneText |-> Markup, phoneHref |-> Markup,
    emailText |-> Markup, profilePicUrl |-> Markup, cardColor |-> Markup,
    textColor |-> Markup, bgColor |-> Markup,
    portfolioLinks |-> Undefined, portfolioItems |-> <<>> ]
MarkupForm ==
  [ firstName |-> Markup, lastName |-> Markup, jobTitle |-> Markup,
    email |-> Markup, linkedin |-> Markup, cardColor |-> Markup,
    cardColorPicker |-> Markup, bgColor |-> Markup, bgColorPicker |-> Markup,
    resumePdf |-> Markup, resumeDocx |-> Markup, cert |-> Markup, edu |-> Markup,
    proj |-> Markup, ref |-> Markup, work |-> Markup, countryCode |-> Markup,
    localNumber |-> Markup, show |-> <<>> ]
NoArrival == [kind |-> "none", sent |-> Undefined]

PageIdle ==
  /\ locationSearch = <<>>
  /\ arrival = NoArrival
  /\ viewingSharedCard = FALSE
  /\ sharedCardData = Null
  /\ view = MarkupView
  /\ shown = Undefined
  /\ form = MarkupForm
  /\ visitorUI = FALSE
  /\ escaped = FALSE
  /\ pagePc = "idle"

(***************************************************************************)
(* The numbers of the crop tool.  A pixel length or a scale is a fraction  *)
(* <<n, d>> in lowest terms with d > 0, so the arithmetic is that of the   *)
(* formulas as written, without the rounding of a 64-bit float.  A zero    *)
(* denominator holds what a division by zero leaves: <<0, 0>> is NaN,      *)
(* <<1, 0>> and <<-1, 0>> are the infinities.                              *)
(***************************************************************************)

RECURSIVE GCD(_, _)
GCD(a, b) == IF b = 0 THEN a ELSE GCD(b, a % b)

Abs(n) == IF n < 0 THEN 0 - n ELSE n
Sign(n) == IF n < 0 THEN 0 - 1 ELSE IF n = 0 THEN 0 ELSE 1

Rat(n, d) ==
  IF d = 0 THEN <<Sign(n), 0>>
  ELSE The({ <<(Sign(d) * n) \div g, Abs(d) \div g>> : g \in {GCD(Abs(n), Abs(d))} })

Px(i) == <<i, 1>>
Zero == Px(0)
One == Px(1)
NaN == <<0, 0>>

Plus(a, b) ==
  IF a[2] # 0 /\ b[2] # 0 THEN Rat((a[1] * b[2]) + (b[1] * a[2]), a[2] * b[2])
  ELSE IF a = NaN \/ b = NaN THEN NaN
  ELSE IF a[2] = 0 /\ b[2] = 0 THEN (IF a = b THEN a ELSE NaN)
  ELSE IF a[2] = 0 THEN a ELSE b

Minus(a, b) == Plus(a, <<0 - b[1], b[2]>>)
Times(a, b) == Rat(a[1] * b[1], a[2] * b[2])
Inv(b) == Rat(b[2], b[1])
Over(a, b) == Times(a, Inv(b))

\* a > b, for finite a and b
Greater(a, b) == (a[1] * b[2]) > (b[1] * a[2])

(***************************************************************************)
(* The crop tool before any file is chosen                                 *)
(***************************************************************************)

Origin == [x |-> Zero, y |-> Zero]

\* let cropState = {...}
InitialCropState ==
  [ originalImage |-> "null", scale |-> One, position |-> Origin,
    isDragging |-> FALSE, dragStart |-> Origin ]

\* #cropImage as served: no source, no size, no transform.
NoTransform == [x |-> Zero, y |-> Zero, scale |-> One]
MarkupCropImage ==
  [ src |-> "", current |-> "", pending |-> FALSE, width |-> Zero, height |-> Zero,
    transform |-> NoTransform ]

\* let uploadedImageData = null
NoUpload == [image |-> "null", sourceX |-> Zero, sourceY |-> Zero, sourceSize |-> Zero]

CropIdle ==
  /\ cropState = InitialCropState
  /\ cropImage = MarkupCropImage
  /\ zoomSlider = 100
  /\ cropModalActive = FALSE
  /\ listeners = [bound |-> FALSE, mouse |-> FALSE]
  /\ reading = <<>>
  /\ profilePicInput = ""
  /\ uploadedImageData = NoUpload
  /\ cropSteps = [files |-> 0, moves |-> 0]

\* No handler has run, and the browser holds no contacts.
NoOp == [name |-> "none", write |-> "none", alerts |-> <<>>, threw |-> FALSE]

HomeIdle ==
  /\ savedContacts = <<>>
  /\ backToMyCard = FALSE
  /\ lastOp = NoOp
  /\ sessionSteps = 0

NoCall == [fn |-> "none", isLastName |-> FALSE, input |-> <<>>, outputs |-> <<>>]

UtilIdle == normaliser = NoCall

(***************************************************************************)
(* The codec applied to one card: buildShareObj, encodeObj, decodeObj.     *)
(***************************************************************************)

InitCodec ==
  /\ card \in Cards
  /\ shareObj = Undefined
  /\ token = Thrown
  /\ decoded = [ok |-> FALSE, v |-> Undefined]
  /\ pc = "card"
  /\ ShareIdle
  /\ PageIdle
  /\ CropIdle
  /\ HomeIdle
  /\ UtilIdle

\* const shareObj = buildShareObj(rawCard)
Project ==
  /\ pc = "card"
  /\ shareObj' = buildShareObj(card, FALSE)
  /\ pc' = "projected"
  /\ UNCHANGED <<card, token, decoded, exceptCodec>>

\* const encodedCard = encodeObj(shareObj)
Encode ==
  /\ pc = "projected"
  /\ token' = encodeObj(shareObj)
  /\ pc' = IF token'.ok THEN "encoded" ELSE "threw"
  /\ UNCHANGED <<card, shareObj, decoded, exceptCodec>>

\* decodeObj(encodedCard)
Decode ==
  /\ pc = "encoded"
  /\ decoded' = decodeObj(token.v)
  /\ pc' = IF decoded'.ok THEN "decoded" ELSE "threw"
  /\ UNCHANGED <<card, shareObj, token, exceptCodec>>

NextCodec == Project \/ Encode \/ Decode

SpecCodec == InitCodec /\ [][NextCodec]_vars

(***************************************************************************)
(* Properties of the codec                                                 *)
(***************************************************************************)

ShareKeys ==
  << kFirstName, kLastName, kJobTitle, kEmail, kPhone, kPhoneE164, kLinkedin,
     kCardColor, kBgColor, kProfilePic, kPortfolioLinks, kPortfolioVisibility >>

\* a and b have the same value in every field of a share record.
SameShareFields(a, b) == \A i \in 1..Len(ShareKeys) : Get(a, ShareKeys[i]) = Get(b, ShareKeys[i])

KeysOf(v) == [i \in 1..Len(v.o) |-> v.o[i][1]]

HasLegacyResume(c) == GetOpt(Get(c, kPortfolioLinks), kResume).t = "string"
HasNoResume(c) == GetOpt(Get(c, kPortfolioLinks), kResume).t = "undefined"

\* C1: decoding the token of a card's projection gives a record equal to the
\* projection in every field, and neither encodeObj nor decodeObj throws.
RoundTrip ==
  /\ pc # "threw"
  /\ pc = "decoded" => decoded.ok /\ SameShareFields(decoded.v, shareObj)

\* C1 witness: a card with a legacy resume string, an embedded photo and a
\* job title outside ASCII has gone through encodeObj and decodeObj.
RoundTripWitness ==
  /\ pc = "decoded"
  /\ HasLegacyResume(card)
  /\ Get(card, kProfilePic) = EmbeddedPhoto
  /\ \E i \in 1..Len(Get(card, kJobTitle).s) : Get(card, kJobTitle).s[i] > 127

\* The resume slot as the projection is to hold it.
TwoSlot(resume) ==
  IF resume.t = "string" THEN ResumeObj(resume, EmptyStr)
  ELSE IF resume.t = "undefined" THEN ResumeObj(EmptyStr, EmptyStr)
  ELSE resume

\* The projection but for portfolioVisibility: exactly the twelve keys, the
\* ten plain fields equal to the card's, the links equal to the card's with
\* resume in the two-slot shape.
ProjectionBody ==
  /\ KeysOf(shareObj) = ShareKeys
  /\ \A i \in 1..10 : Get(shareObj, ShareKeys[i]) = Get(card, ShareKeys[i])
  /\ LET links == Get(shareObj, kPortfolioLinks)
         stored == Get(card, kPortfolioLinks)
     IN  /\ \A k \in {kCert, kEdu, kProj, kRef, kWork} : Get(links, k) = GetOpt(stored, k)
         /\ Get(links, kResume) = TwoSlot(GetOpt(stored, kResume))
         /\ KeysOf(Get(links, kResume)) = <<kPdf, kDocx>>
  /\ \A k \in {kCountryCode, kLocalNumber, kLastUpdated} : ~HasKey(shareObj, k)

\* C4 as stated: every field of the projection, portfolioVisibility
\* included, equals the card's value.
ProjectionAsStated ==
  pc # "card" =>
    /\ ProjectionBody
    /\ Get(shareObj, kPortfolioVisibility) = Get(card, kPortfolioVisibility)

\* C4 amended: the projection carries exactly the twelve keys, each plain
\* field equal to the card's, resume in the two-slot shape,
\* portfolioVisibility equal to the card's when the card has one and all six
\* true when it has none; no countryCode, localNumber or lastUpdated; and
\* the step leaves the card as it was.
Projection ==
  /\ [](pc # "card" =>
          /\ ProjectionBody
          /\ Get(shareObj, kPortfolioVisibility) =
               IF HasKey(card, kPortfolioVisibility)
               THEN Get(card, kPortfolioVisibility)
               ELSE AllVisible)
  /\ [][card' = card]_vars

\* C4 witness: a card with a legacy resume string and no portfolioVisibility
\* has been projected.
ProjectionWitness ==
  /\ pc = "projected"
  /\ HasLegacyResume(card)
  /\ ~HasKey(card, kPortfolioVisibility)

(***************************************************************************)
(* js/share.js: the share link and the QR code                             *)
(***************************************************************************)

\* The QR payload ceiling and the QR image deadline in seconds (5000 ms).
QR_MAX_LENGTH == 4000
QR_TIMEOUT == 5

\* The number of generateQRCode calls in a behaviour.
MaxRuns == 2

\* `${location.origin}${location.pathname}` of the page, its search emptied.
PageUrl == Str("https://cards.example/index.html")

\* `${baseUrl}${baseUrl.includes('?') ? '&' : '?'}card=${encodedCard}`
ShareUrlOf(baseUrl, encodedCard) ==
  baseUrl \o (IF \E i \in 1..Len(baseUrl) : baseUrl[i] = 63 THEN <<38>> ELSE <<63>>)
          \o Str("card=") \o encodedCard

\* buildShareUrlFromUI() with getMyCard() = rawCard: the URL, and the record
\* that was encoded into it.
buildShareUrlFromUI(rawCard) ==
  IF ~Truthy(rawCard) THEN [url |-> PageUrl, obj |-> Undefined]
  ELSE LET obj == buildShareObj(rawCard, FALSE)
           encodedCard == encodeObj(obj)
       IN  [url |-> ShareUrlOf(PageUrl, encodedCard.v), obj |-> obj]

\* profilePicForQR with the embedded photo kept.
profilePicForQRKept(profilePic) == profilePic

\* profilePicForQR of generateQRCode: '' for a base64 image.
profilePicForQR(profilePic) ==
  IF IsEmbeddedImage(profilePic) THEN EmptyStr ELSE profilePic

\* qrShareObj of generateQRCode: { ...fullShareObj, profilePic: profilePicForQR }
qrShareObj(rawCard) ==
  LET fullShareObj == buildShareObj(rawCard, FALSE)
  IN  SpreadWith(fullShareObj, kProfilePic, profilePicForQR(Get(fullShareObj, kProfilePic)))

\* The size gate left open.
TooLargeForQRNever(encodedCard) == FALSE

\* encodedCard.length > 4000
TooLargeForQR(encodedCard) == Len(encodedCard) > QR_MAX_LENGTH

\* generateQRCode up to the size gate: the record it encodes, the token's
\* length, the URL, and whether the QR image is requested.
QRRequest(rawCard) ==
  LET obj == qrShareObj(rawCard)
      encodedCard == encodeObj(obj).v
  IN  [ obj |-> obj,
        length |-> Len(encodedCard),
        url |-> ShareUrlOf(PageUrl, encodedCard),
        requested |-> ~TooLargeForQR(encodedCard) ]

\* What one call of generateQRCode sets up past the gate: the image request
\* (img), the imageLoaded flag of its closure, its timer, and the seconds the
\* timer has been armed for.
NewRun(request) ==
  [ obj |-> request.obj,
    length |-> request.length,
    url |-> request.url,
    imageLoaded |-> FALSE,
    img |-> IF request.requested THEN "pending" ELSE "none",
    timer |-> IF request.requested THEN "armed" ELSE "none",
    elapsed |-> 0 ]

\* The run with a completion that neither sets the flag nor clears the timer.
CompletedKeepsTimer(run, outcome) == [run EXCEPT !.img = outcome]

\* onload / onerror: imageLoaded = true; clearTimeout(timeout).
Completed(run, outcome) ==
  [run EXCEPT !.img = outcome,
              !.imageLoaded = TRUE,
              !.timer = IF run.timer = "armed" THEN "cleared" ELSE run.timer,
              !.elapsed = 0]

\* The cards the sharing page may hold: three of the cards above, and two
\* with a job title long enough for the QR token to be exactly QR_MAX_LENGTH
\* characters and four more.
PaddedCard(photo, bytes) ==
  LET base == Len(JSONStringify(qrShareObj(CardOf(<<>>, photo, "two-slot", "all", TRUE))))
  IN  CardOf([i \in 1..(bytes - base) |-> 97], photo, "two-slot", "all", TRUE)

AtLimitCard == PaddedCard(RemotePhoto, (QR_MAX_LENGTH \div 4) * 3)
OverLimitCard == PaddedCard(EmbeddedPhoto, (QR_MAX_LENGTH \div 4) * 3 + 1)

ShareCards ==
  { CardOf(Str("Student"), EmbeddedPhoto, "two-slot", "set", TRUE),
    CardOf(<<8364, 126>>, RemotePhoto, "string", "absent", TRUE),
    CardOf(<<>>, EmptyStr, "absent", "all", TRUE),
    AtLimitCard, OverLimitCard }

\* buildShareUrlFromUI and generateQRCode are functions of the stored card
\* alone; they are tabulated once for the cards of the model.
ShareLinks == [c \in ShareCards \cup {Null} |-> buildShareUrlFromUI(c)]
QRRequests == [c \in ShareCards |-> QRRequest(c)]

InitShare ==
  /\ CodecIdle
  /\ PageIdle
  /\ CropIdle
  /\ HomeIdle
  /\ UtilIdle
  /\ myCard \in ShareCards \cup {Null}
  /\ link = NoLink
  /\ sharePanelActive = FALSE
  /\ qrRuns = <<>>
  /\ qrContainer = EmptyContainer

\* copyShareLink() and openShareLink(): both build the URL and hand it on.
CopyShareLink ==
  /\ link' = ShareLinks[myCard]
  /\ UNCHANGED <<exceptShare, myCard, sharePanelActive, qrRuns, qrContainer>>

\* openShare(): an alert when there is no card; otherwise the panel opens and
\* generateQRCode() runs: the container is emptied, then holds the raw link
\* when the token is too large, and is left empty for the image otherwise.
OpenShare ==
  /\ Len(qrRuns) < MaxRuns
  /\ IF ~Truthy(myCard)
     THEN UNCHANGED <<sharePanelActive, qrRuns, qrContainer>>
     ELSE LET run == NewRun(QRRequests[myCard])
          IN  /\ sharePanelActive' = TRUE
              /\ qrRuns' = Append(qrRuns, run)
              /\ qrContainer' =
                   IF run.img = "none"
                   THEN [kind |-> "too-large", run |-> Len(qrRuns) + 1, url |-> run.url]
                   ELSE EmptyContainer
  /\ UNCHANGED <<exceptShare, myCard, link>>

\* closeShare()
CloseShare ==
  /\ sharePanelActive
  /\ sharePanelActive' = FALSE
  /\ UNCHANGED <<exceptShare, myCard, link, qrRuns, qrContainer>>

\* The setTimeout callback of run r, 5 seconds after the call.
QRTimeout(r) ==
  /\ qrRuns[r].timer = "armed"
  /\ qrRuns[r].elapsed >= QR_TIMEOUT
  /\ qrRuns' = [qrRuns EXCEPT ![r].timer = "fired", ![r].elapsed = 0]
  /\ qrContainer' =
       IF ~qrRuns[r].imageLoaded
       THEN [kind |-> "timed-out", run |-> r, url |-> qrRuns[r].url]
       ELSE qrContainer
  /\ UNCHANGED <<exceptShare, myCard, link, sharePanelActive>>

\* qrImage.onload of run r
QRImageLoad(r) ==
  /\ qrRuns[r].img = "pending"
  /\ qrRuns' = [qrRuns EXCEPT ![r] = Completed(qrRuns[r], "loaded")]
  /\ qrContainer' = [kind |-> "image", run |-> r, url |-> <<>>]
  /\ UNCHANGED <<exceptShare, myCard, link, sharePanelActive>>

\* qrImage.onerror of run r
QRImageError(r) ==
  /\ qrRuns[r].img = "pending"
  /\ qrRuns' = [qrRuns EXCEPT ![r] = Completed(qrRuns[r], "error")]
  /\ qrContainer' = [kind |-> "failed", run |-> r, url |-> qrRuns[r].url]
  /\ UNCHANGED <<exceptShare, myCard, link, sharePanelActive>>

\* A second passes while a timer is armed.  A timer that is due runs before
\* the next second does.
Tick ==
  /\ \E r \in 1..Len(qrRuns) : qrRuns[r].timer = "armed"
  /\ \A r \in 1..Len(qrRuns) :
       qrRuns[r].timer = "armed" => qrRuns[r].elapsed < QR_TIMEOUT
  /\ qrRuns' = [r \in 1..Len(qrRuns) |->
                  IF qrRuns[r].timer = "armed"
                  THEN [qrRuns[r] EXCEPT !.elapsed = @ + 1]
                  ELSE qrRuns[r]]
  /\ UNCHANGED <<exceptShare, myCard, link, sharePanelActive, qrContainer>>

NextShare ==
  \/ CopyShareLink
  \/ OpenShare
  \/ CloseShare
  \/ \E r \in 1..Len(qrRuns) : QRTimeout(r)
  \/ \E r \in 1..Len(qrRuns) : QRImageLoad(r)
  \/ \E r \in 1..Len(qrRuns) : QRImageError(r)
  \/ Tick

SpecShare == InitShare /\ [][NextShare]_vars

(***************************************************************************)
(* Properties of the share link and the QR code                            *)
(***************************************************************************)

Runs == 1..Len(qrRuns)

\* C3. Channel-dependent photo: the record every generateQRCode call encodes
\* has profilePic '' when the stored photo starts with 'data:image' and the
\* stored photo otherwise; the record buildShareUrlFromUI encodes carries the
\* stored photo verbatim; every other field is the same in both records.
ChannelPhoto ==
  /\ \A r \in Runs :
       /\ Get(qrRuns[r].obj, kProfilePic) =
            IF IsEmbeddedImage(Get(myCard, kProfilePic))
            THEN EmptyStr ELSE Get(myCard, kProfilePic)
       /\ KeysOf(qrRuns[r].obj) = ShareKeys
  /\ link.obj # Undefined =>
       /\ Get(link.obj, kProfilePic) = Get(myCard, kProfilePic)
       /\ KeysOf(link.obj) = ShareKeys
       /\ \A r \in Runs : \A i \in 1..Len(ShareKeys) :
            ShareKeys[i] # kProfilePic
              => Get(qrRuns[r].obj, ShareKeys[i]) = Get(link.obj, ShareKeys[i])

\* Both channels have encoded a card with an embedded photo.
ChannelPhotoWitness ==
  /\ link.obj # Undefined
  /\ Get(link.obj, kProfilePic) = EmbeddedPhoto
  /\ \E r \in Runs : Get(qrRuns[r].obj, kProfilePic) = EmptyStr

\* The container shows the raw share link of run r under the given heading.
ShowsLink(container, kind, r) ==
  /\ container.kind = kind
  /\ container.run = r
  /\ container.url = qrRuns[r].url
  /\ Len(container.url) = Len(PageUrl) + Len(Str("?card=")) + qrRuns[r].length

\* C7. Size gate: a generateQRCode call has an image request or a timer only
\* if its token is at most 4000 characters long; a call whose token is longer
\* has neither, and leaves the container showing the raw share link.
SizeGate ==
  /\ [](\A r \in Runs :
          /\ (qrRuns[r].img # "none" \/ qrRuns[r].timer # "none")
               => qrRuns[r].length <= QR_MAX_LENGTH
          /\ qrRuns[r].length > QR_MAX_LENGTH
               => qrRuns[r].img = "none" /\ qrRuns[r].timer = "none")
  /\ [][ Len(qrRuns') > Len(qrRuns) /\ qrRuns'[Len(qrRuns')].length > QR_MAX_LENGTH
           => /\ qrContainer'.kind = "too-large"
              /\ qrContainer'.run = Len(qrRuns')
              /\ qrContainer'.url = qrRuns'[Len(qrRuns')].url
              /\ Len(qrContainer'.url) =
                   Len(PageUrl) + Len(Str("?card=")) + qrRuns'[Len(qrRuns')].length ]_vars

\* A token four characters over the ceiling was refused and its link shown.
SizeGateWitness ==
  \E r \in Runs :
    /\ qrRuns[r].length = QR_MAX_LENGTH + 4
    /\ qrRuns[r].img = "none"
    /\ ShowsLink(qrContainer, "too-large", r)

\* C8. Deadline fallback: the timer of a request runs 5 seconds after the
\* call, when no completion has arrived, and puts the raw share link in the
\* container; a completion cancels the timer for good, so the timed-out
\* notice of a request is only ever on show while the request is pending; and
\* a load after the deadline still puts the image in the container.
DeadlineFallback ==
  /\ [](\A r \in Runs :
          /\ qrRuns[r].timer = "armed"
               => qrRuns[r].img = "pending" /\ qrRuns[r].elapsed <= QR_TIMEOUT
          /\ qrRuns[r].timer = "cleared" => qrRuns[r].img \in {"loaded", "error"}
          /\ (qrContainer.kind = "timed-out" /\ qrContainer.run = r)
               => qrRuns[r].img = "pending" /\ qrRuns[r].timer = "fired")
  /\ [][ \A r \in Runs :
           /\ (qrRuns[r].timer = "armed" /\ qrRuns'[r].timer = "fired")
                => /\ qrRuns[r].elapsed = QR_TIMEOUT
                   /\ qrRuns[r].img = "pending"
                   /\ qrContainer'.kind = "timed-out"
                   /\ qrContainer'.run = r
                   /\ qrContainer'.url = qrRuns[r].url
           /\ (qrRuns[r].img = "pending" /\ qrRuns'[r].img # "pending")
                => qrRuns'[r].timer # "armed"
           /\ qrRuns[r].timer = "cleared" => qrRuns'[r].timer = "cleared"
           /\ (qrRuns[r].img = "pending" /\ qrRuns'[r].img = "loaded")
                => qrContainer' = [kind |-> "image", run |-> r, url |-> <<>>] ]_vars

\* The timer of a request ran, and its image, loaded later, is on show.
DeadlineFallbackWitness ==
  \E r \in Runs :
    /\ qrRuns[r].timer = "fired"
    /\ qrRuns[r].img = "loaded"
    /\ qrContainer = [kind |-> "image", run |-> r, url |-> <<>>]

(***************************************************************************)
(* new URLSearchParams(window.location.search).get(name)                   *)
(***************************************************************************)

\* The pieces of s between the separators sep, empty pieces included.
SplitOn(s, sep) ==
  LET cuts == SelectSeq([i \in 1..Len(s) |-> i], LAMBDA i : s[i] = sep)
      from(k) == IF k = 1 THEN 1 ELSE cuts[k - 1] + 1
      upto(k) == IF k = Len(cuts) + 1 THEN Len(s) ELSE cuts[k] - 1
  IN  [k \in 1..(Len(cuts) + 1) |-> SubSeq(s, from(k), upto(k))]

\* Position p of s starts a percent escape.
IsPercentEscape(s, p) ==
  s[p] = 37 /\ p + 2 <= Len(s) /\ IsHexDigit(s[p + 1]) /\ IsHexDigit(s[p + 2])

\* The form-urlencoded reading of position p: a + is a space, %XX is the
\* byte XX, a % that starts no escape stands for itself.
FormItem(s, p) ==
  IF (p > 1 /\ IsPercentEscape(s, p - 1)) \/ (p > 2 /\ IsPercentEscape(s, p - 2))
  THEN <<>>
  ELSE IF IsPercentEscape(s, p)
       THEN <<[b |-> TRUE, c |-> HexVal(s[p + 1]) * 16 + HexVal(s[p + 2])]>>
  ELSE IF s[p] = 43 THEN <<[b |-> FALSE, c |-> 32]>>
  ELSE <<[b |-> FALSE, c |-> s[p]]>>

\* UTF-8 decode without BOM: bytes that form no sequence become U+FFFD.
LossyItem(items, i) ==
  IF ~items[i].b \/ items[i].c < 128 THEN <<items[i].c>>
  ELSE IF IsContinuation(items[i])
       THEN IF \E j \in 1..3 : i - j >= 1 /\ items[i - j].b
                                /\ LeadLength(items[i - j].c) > j
                                /\ GoodLead(items, i - j)
            THEN <<>> ELSE <<65533>>
  ELSE IF GoodLead(items, i) THEN DecodedItem(items, i)
  ELSE <<65533>>

FormDecode(s) ==
  LET items == Flat([p \in 1..Len(s) |-> FormItem(s, p)])
  IN  Flat([i \in 1..Len(items) |-> LossyItem(items, i)])

\* The name and value of one piece of the query: split at the first =.
FormPair(piece) ==
  LET eq == SelectSeq([i \in 1..Len(piece) |-> i], LAMBDA i : piece[i] = 61)
  IN  IF eq = <<>> THEN <<FormDecode(piece), <<>>>>
      ELSE <<FormDecode(SubSeq(piece, 1, eq[1] - 1)),
             FormDecode(SubSeq(piece, eq[1] + 1, Len(piece)))>>

\* urlParams.get(name): the value of the first pair called name, or null.
SearchParam(search, name) ==
  LET query == IF search # <<>> /\ search[1] = 63 THEN Tail(search) ELSE search
      pieces == SelectSeq(SplitOn(query, 38), LAMBDA piece : piece # <<>>)
      pairs == [k \in 1..Len(pieces) |-> FormPair(pieces[k])]
      named == SelectSeq(pairs, LAMBDA pair : pair[1] = name)
  IN  IF named = <<>> THEN Null ELSE StrV(named[1][2])

\* window.location.search of a page opened at url (which has no fragment).
SearchOf(url) ==
  LET marks == SelectSeq([i \in 1..Len(url) |-> i], LAMBDA i : url[i] = 63)
  IN  IF marks = <<>> THEN <<>> ELSE SubSeq(url, marks[1], Len(url))

(***************************************************************************)
(* js/utils.js: the helpers applyCardData calls                            *)
(***************************************************************************)

\* \s of a regular expression, and the characters trim() strips.
IsWhiteSpace(c) ==
  \/ c \in {9, 10, 11, 12, 13, 32, 160, 5760, 8232, 8233, 8239, 8287, 12288, 65279}
  \/ (c >= 8192 /\ c <= 8202)

\* The number of digits, and of white-space characters, that s has from p on.
DigitRun(s, p) ==
  CHOOSE n \in 0..(Len(s) - p + 1) :
    /\ \A k \in 0..(n - 1) : IsDigit(s[p + k])
    /\ (p + n > Len(s) \/ ~IsDigit(s[p + n]))

SpaceRun(s, p) ==
  CHOOSE n \in 0..(Len(s) - p + 1) :
    /\ \A k \in 0..(n - 1) : IsWhiteSpace(s[p + k])
    /\ (p + n > Len(s) \/ ~IsWhiteSpace(s[p + n]))

AllDigits(s, from, to) == to <= Len(s) /\ \A i \in from..to : IsDigit(s[i])

kCc == Str("cc")
kLocal == Str("local")
kPrettyLocal == Str("prettyLocal")
kPretty == Str("pretty")
kE164 == Str("e164")

\* parsePrettyPhone10(prettyPhone) for a string or falsy prettyPhone: the
\* match of /^\+?(\d{1,3})\s*\((\d{3})\)\s*(\d{3})-(\d{4})$/, or null.
parsePrettyPhone10(prettyPhone) ==
  LET s == OrElse(prettyPhone, EmptyStr).s
      a == IF s # <<>> /\ s[1] = 43 THEN 2 ELSE 1
      n == DigitRun(s, a)
      c == a + n + SpaceRun(s, a + n)
      e == c + 5 + SpaceRun(s, c + 5)
      matches ==
        /\ n >= 1 /\ n <= 3
        /\ c + 4 <= Len(s) /\ s[c] = 40 /\ AllDigits(s, c + 1, c + 3) /\ s[c + 4] = 41
        /\ Len(s) = e + 7
        /\ AllDigits(s, e, e + 2) /\ s[e + 3] = 45 /\ AllDigits(s, e + 4, e + 7)
      area == SubSeq(s, c + 1, c + 3)
      exchange == SubSeq(s, e, e + 2)
      line == SubSeq(s, e + 4, e + 7)
  IN  IF ~matches THEN Null
      ELSE Obj(<< <<kCc, StrV(SubSeq(s, a, a + n - 1))>>,
                  <<kLocal, StrV(area \o exchange \o line)>>,
                  <<kPrettyLocal, StrV(<<40>> \o area \o <<41, 45>> \o exchange
                                        \o <<45>> \o line)>> >>)

\* s.slice(from, to) with 0 <= from <= to.
Slice(s, from, to) ==
  SubSeq(s, from + 1, IF to < Len(s) THEN to ELSE Len(s))

\* formatPhone(countryCode, local) for strings.
formatPhone(countryCode, local) ==
  Obj(<< <<kPretty, StrV(<<43>> \o countryCode.s \o <<32, 40>> \o Slice(local.s, 0, 3)
                          \o <<41, 32>> \o Slice(local.s, 3, 6) \o <<45>>
                          \o Slice(local.s, 6, Len(local.s)))>>,
         <<kE164, StrV(<<43>> \o countryCode.s \o local.s)>> >>)

\* s.replace(pattern, ''): s without the first occurrence of pattern.
RemoveFirst(s, pattern) ==
  LET at == SelectSeq([i \in 1..Len(s) |-> i],
                      LAMBDA i : i + Len(pattern) - 1 <= Len(s)
                                 /\ SubSeq(s, i, i + Len(pattern) - 1) = pattern)
  IN  IF at = <<>> THEN s
      ELSE SubSeq(s, 1, at[1] - 1) \o SubSeq(s, at[1] + Len(pattern), Len(s))

\* s.trim()
Trim(s) ==
  LET inked == SelectSeq([i \in 1..Len(s) |-> i], LAMBDA i : ~IsWhiteSpace(s[i]))
  IN  IF inked = <<>> THEN <<>> ELSE SubSeq(s, inked[1], inked[Len(inked)])

\* parseInt(t, 16) || 0 for a t of at most two characters.
ParseHexPair(t) ==
  LET r == SubSeq(t, SpaceRun(t, 1) + 1, Len(t))
      signed == r # <<>> /\ r[1] \in {43, 45}
      d == IF signed THEN Tail(r) ELSE r
      magnitude ==
        IF d = <<>> \/ ~IsHexDigit(d[1]) THEN 0
        ELSE IF Len(d) = 2 /\ IsHexDigit(d[2]) THEN HexVal(d[1]) * 16 + HexVal(d[2])
        ELSE HexVal(d[1])
  IN  IF signed /\ r[1] = 45 THEN 0 - magnitude ELSE magnitude

ColorWhite == Str("#ffffff")
ColorInk == Str("#111827")

\* contrastColor(hex) for a string or falsy hex.
contrastColor(hex) ==
  LET stripped == Trim(RemoveFirst(OrElse(hex, StrV(Str("#000"))).s, <<35>>))
      color == IF Len(stripped) = 3
               THEN << stripped[1], stripped[1], stripped[2], stripped[2],
                       stripped[3], stripped[3] >>
               ELSE stripped
      r == ParseHexPair(Slice(color, 0, 2))
      g == ParseHexPair(Slice(color, 2, 4))
      b == ParseHexPair(Slice(color, 4, 6))
  IN  IF r * 299 + g * 587 + b * 114 >= 128 * 1000 THEN ColorInk ELSE ColorWhite

(***************************************************************************)
(* js/storage.js: applyCardData                                            *)
(***************************************************************************)

\* ALLOWED_COUNTRY_CODES with one more code.
ALLOWED_COUNTRY_CODES_AND_2 ==
  { Str("1"), Str("44"), Str("61"), Str("81"), Str("91"), Str("353"), Str("2") }

ALLOWED_COUNTRY_CODES ==
  { Str("1"), Str("44"), Str("61"), Str("81"), Str("91"), Str("353") }

\* element.textContent = v, and input.value = v
TextContent(v) == IF IsNullish(v) THEN <<>> ELSE ToStr(v)
InputValue(v) == IF v.t = "null" THEN <<>> ELSE ToStr(v)

\* The value an <input type=color> takes when set to v: a #rrggbb in lower
\* case, and #000000 for anything else.
ColorInputValue(v) ==
  LET s == InputValue(v)
  IN  IF Len(s) = 7 /\ s[1] = 35 /\ \A i \in 2..7 : IsHexDigit(s[i])
      THEN [i \in 1..7 |-> IF IsUpper(s[i]) THEN s[i] + 32 ELSE s[i]]
      ELSE Str("#000000")

\* cardData.profilePic && cardData.profilePic.length > 100
HasOwnPhoto(cardData) ==
  LET pic == Get(cardData, kProfilePic)
      length == Get(pic, Str("length"))
  IN  /\ Truthy(pic)
      /\ IF pic.t = "string" THEN Len(pic.s) > 100
         ELSE length.t = "number" /\ length.n > 100

\* cardData.firstName + '+' + cardData.lastName
PlaceholderName(cardData) ==
  ToStr(Get(cardData, kFirstName)) \o <<43>> \o ToStr(Get(cardData, kLastName))

\* countryCode and localNumber of the form block, before and after the
\* parse of cardData.phone: [throws, cc, local]
FormPhone(cardData) ==
  The({ IF (~Truthy(cc) \/ ~Truthy(local)) /\ Truthy(phone)
        THEN IF phone.t # "string" THEN [throws |-> TRUE, cc |-> cc, local |-> local]
             ELSE The({ IF Truthy(parsed)
                        THEN [throws |-> FALSE, cc |-> Get(parsed, kCc),
                              local |-> Get(parsed, kLocal)]
                        ELSE [throws |-> FALSE, cc |-> cc, local |-> local] :
                          parsed \in {parsePrettyPhone10(phone)} })
        ELSE [throws |-> FALSE, cc |-> cc, local |-> local] :
          cc \in {Get(cardData, kCountryCode)},
          local \in {Get(cardData, kLocalNumber)},
          phone \in {Get(cardData, kPhone)} })

\* The statement group of applyCardData(cardData) that throws (0: none does):
\* 1 reads a property of null, 2 calls replace on a linkedin that is no
\* string, 3 calls match on a phone that is no string, 4 hands a lone
\* surrogate to encodeURIComponent, 5 calls replace on a cardColor that is no
\* string, 6 and 7 call match and replace on a phone and a localNumber that
\* are no strings while the form is filled in.
applyThrowsAt(cardData, viewing) ==
  IF IsNullish(cardData) THEN 1
  ELSE The({
         IF Truthy(linkedin) /\ linkedin.t # "string" THEN 2
         ELSE IF ~Truthy(Get(cardData, kPhoneE164)) /\ Truthy(phone)
                  /\ phone.t # "string" THEN 3
         ELSE IF ~HasOwnPhoto(cardData)
                  /\ ~EncodeURIComponent(PlaceholderName(cardData)).ok THEN 4
         ELSE IF Truthy(cardColor) /\ cardColor.t # "string" THEN 5
         ELSE IF ~viewing /\ formPhone.throws THEN 6
         ELSE IF ~viewing /\ Truthy(formPhone.local)
                  /\ formPhone.local.t # "string" THEN 7
         ELSE 0 :
           linkedin \in {Get(cardData, kLinkedin)},
           phone \in {Get(cardData, kPhone)},
           cardColor \in {Get(cardData, kCardColor)},
           formPhone \in {FormPhone(cardData)} })

\* prettyPhone and e164Phone of applyCardData.
ViewPhone(cardData) ==
  The({ IF ~Truthy(e164) /\ Truthy(phone)
        THEN The({ IF Truthy(parsed)
                   THEN The({ [pretty |-> Get(formatted, kPretty),
                               e164 |-> Get(formatted, kE164)] :
                                formatted \in {formatPhone(Get(parsed, kCc),
                                                           Get(parsed, kLocal))} })
                   ELSE [pretty |-> phone, e164 |-> e164] :
                     parsed \in {parsePrettyPhone10(phone)} })
        ELSE [pretty |-> phone, e164 |-> e164] :
          phone \in {Get(cardData, kPhone)},
          e164 \in {Get(cardData, kPhoneE164)} })

\* portfolioLinks of applyCardData after the resume assignment, which a
\* primitive ignores.
StoredLinks(cardData) ==
  LET portfolioLinks == OrElse(Get(cardData, kPortfolioLinks), Obj(<<>>))
      resume == Get(portfolioLinks, kResume)
  IN  IF portfolioLinks.t # "object" THEN portfolioLinks
      ELSE IF Truthy(resume) /\ resume.t = "string"
           THEN SpreadWith(portfolioLinks, kResume, ResumeObj(resume, EmptyStr))
      ELSE IF ~Truthy(resume)
           THEN SpreadWith(portfolioLinks, kResume, ResumeObj(EmptyStr, EmptyStr))
      ELSE portfolioLinks

\* cardData after applyCardData: its portfolioLinks object had resume set in
\* place.
AfterApply(cardData) ==
  IF Truthy(Get(cardData, kPortfolioLinks)) /\ Get(cardData, kPortfolioLinks).t = "object"
  THEN SpreadWith(cardData, kPortfolioLinks, StoredLinks(cardData))
  ELSE cardData

PortfolioTypes == <<kCert, kEdu, kProj, kRef, kResume, kWork>>

\* visibility[k] !== false, for the six types in order.
VisibleItems(cardData) ==
  LET visibility == OrElse(Get(cardData, kPortfolioVisibility), AllVisible)
  IN  SelectSeq(PortfolioTypes, LAMBDA k : Get(visibility, k) # Bool(FALSE))

PlaceholderPrefix == Str("https://ui-avatars.com/api/?name=")
PlaceholderSuffix == Str("&size=400&background=6366f1&color=fff&bold=true")

\* What a completed applyCardData(cardData) leaves in the card elements.
Rendered(cardData) ==
  The({
      [ fullName |-> ToStr(Get(cardData, kFirstName)) \o <<32>>
                       \o ToStr(Get(cardData, kLastName)),
        jobTitle |-> TextContent(OrElse(Get(cardData, kJobTitle), EmptyStr)),
        linkedinHref |-> ToStr(OrElse(linkedin, StrV(<<35>>))),
        linkedinText |-> RemoveFirst(RemoveFirst(ToStr(OrElse(linkedin, EmptyStr)),
                                                 Str("https://")), Str("http://")),
        phoneText |-> TextContent(OrElse(phone.pretty, EmptyStr)),
        phoneHref |-> IF Truthy(phone.e164) THEN Str("tel:") \o ToStr(phone.e164)
                      ELSE <<35>>,
        emailText |-> TextContent(Get(cardData, kEmail)),
        profilePicUrl |->
          IF HasOwnPhoto(cardData) THEN ToStr(Get(cardData, kProfilePic))
          ELSE PlaceholderPrefix \o EncodeURIComponent(PlaceholderName(cardData)).v
                 \o PlaceholderSuffix,
        cardColor |-> ToStr(Get(cardData, kCardColor)),
        textColor |-> contrastColor(Get(cardData, kCardColor)),
        bgColor |-> ToStr(Get(cardData, kBgColor)),
        portfolioLinks |-> StoredLinks(cardData),
        portfolioItems |-> VisibleItems(cardData) ] :
          linkedin \in {Get(cardData, kLinkedin)},
          phone \in {ViewPhone(cardData)} })

\* What the form block of a completed applyCardData(cardData) leaves in the
\* settings form.
FormPage(portfolioLinks, k) == InputValue(OrElse(Get(portfolioLinks, k), EmptyStr))

Filled(cardData) ==
  The({
      [ firstName |-> InputValue(Get(cardData, kFirstName)),
        lastName |-> InputValue(Get(cardData, kLastName)),
        jobTitle |-> InputValue(OrElse(Get(cardData, kJobTitle), EmptyStr)),
        email |-> InputValue(Get(cardData, kEmail)),
        linkedin |-> InputValue(OrElse(Get(cardData, kLinkedin), EmptyStr)),
        cardColor |-> InputValue(Get(cardData, kCardColor)),
        cardColorPicker |-> ColorInputValue(Get(cardData, kCardColor)),
        bgColor |-> InputValue(Get(cardData, kBgColor)),
        bgColorPicker |-> ColorInputValue(Get(cardData, kBgColor)),
        resumePdf |->
          IF resumeData.t = "string" THEN resumeData.s
          ELSE IF resumeData.t = "object"
               THEN InputValue(OrElse(Get(resumeData, kPdf), EmptyStr))
          ELSE <<>>,
        resumeDocx |->
          IF resumeData.t = "object"
          THEN InputValue(OrElse(Get(resumeData, kDocx), EmptyStr))
          ELSE <<>>,
        cert |-> FormPage(portfolioLinks, kCert),
        edu |-> FormPage(portfolioLinks, kEdu),
        proj |-> FormPage(portfolioLinks, kProj),
        ref |-> FormPage(portfolioLinks, kRef),
        work |-> FormPage(portfolioLinks, kWork),
        countryCode |->
          IF phone.cc.t = "string" /\ phone.cc.s \in ALLOWED_COUNTRY_CODES
          THEN phone.cc.s ELSE <<>>,
        localNumber |->
          IF Truthy(phone.local)
          THEN Slice(SelectSeq(phone.local.s, IsDigit), 0, 10) ELSE <<>>,
        show |-> VisibleItems(cardData) ] :
          portfolioLinks \in {OrElse(Get(cardData, kPortfolioLinks), Obj(<<>>))},
          resumeData \in {Get(OrElse(Get(cardData, kPortfolioLinks), Obj(<<>>)), kResume)},
          phone \in {FormPhone(cardData)} })

\* The statement group that writes each card element and each form input.
ViewStage ==
  [ fullName |-> 1, jobTitle |-> 1, linkedinHref |-> 1, linkedinText |-> 2,
    phoneText |-> 3, phoneHref |-> 3, emailText |-> 3, profilePicUrl |-> 4,
    cardColor |-> 4, textColor |-> 5, bgColor |-> 5,
    portfolioLinks |-> 7, portfolioItems |-> 7 ]

FormStage(input) ==
  IF input = "countryCode" THEN 6 ELSE IF input \in {"localNumber", "show"} THEN 7 ELSE 5

\* applyCardData(cardData) with viewingSharedCard = viewing: whether it threw,
\* the card elements and the form it leaves (an element a throw came before
\* keeps its old content), and cardData afterwards.
applyCardData(cardData, viewing, oldView, oldForm) ==
  The({ IF at = 0
        THEN [ threw |-> FALSE, view |-> new,
               form |-> IF viewing THEN oldForm ELSE filled,
               cardData |-> AfterApply(cardData) ]
        ELSE [ threw |-> TRUE,
               view |-> [e \in DOMAIN oldView |->
                           IF at > ViewStage[e] THEN new[e] ELSE oldView[e]],
               form |-> [input \in DOMAIN oldForm |->
                           IF ~viewing /\ at > FormStage(input)
                           THEN filled[input] ELSE oldForm[input]],
               cardData |-> cardData ] :
          at \in {applyThrowsAt(cardData, viewing)},
          new \in {Rendered(cardData)},
          filled \in {Filled(cardData)} })

(***************************************************************************)
(* js/main.js: the page load                                               *)
(***************************************************************************)

\* A loadMyCard that applies what getMyCard() returned, a card or null.
loadMyCardNoDefault(stored, oldView, oldForm) ==
  [ applied |-> applyCardData(stored, FALSE, oldView, oldForm) ]

\* loadMyCard() with getMyCard() = stored, over the card elements and form
\* given: the card it applies and what applyCardData makes of it.
loadMyCard(stored, oldView, oldForm) ==
  LET cardData == IF Truthy(stored) THEN stored ELSE DEFAULT_CARD
  IN  [ applied |-> applyCardData(cardData, FALSE, oldView, oldForm) ]

\* The pages a visitor opens.  The links and QR codes are those the app
\* makes for these cards of a sender.
SenderCards ==
  { CardOf(jobTitle, photo, "two-slot", "set", TRUE) :
      jobTitle \in JobTitles, photo \in {RemotePhoto, EmbeddedPhoto} }
  \cup { DEFAULT_CARD,
         CardOf(Str("Student"), EmptyStr, "string", "absent", FALSE),
         CardOf(Str("Lead ~ Dev"), RemotePhoto, "two-slot", "all", TRUE) }

LinkArrivals ==
  { [search |-> SearchOf(buildShareUrlFromUI(c).url), kind |-> "link",
     sent |-> buildShareUrlFromUI(c).obj] : c \in SenderCards }

QRArrivals ==
  { [search |-> SearchOf(QRRequest(c).url), kind |-> "qr",
     sent |-> QRRequest(c).obj] : c \in SenderCards }

\* Hand-made addresses.  A token is the base64 of a text.
TokenOf(text) == Btoa(Str(text)).v
HandMade(kind, search) == [search |-> search, kind |-> kind, sent |-> Undefined]
CardQuery(encodedCard) == Str("?card=") \o encodedCard

HandMadeArrivals ==
  { HandMade("none", <<>>),
    HandMade("none", Str("?card=")),
    HandMade("none", Str("?ref=mail&cards=e30=")),
    HandMade("malformed", Str("?card=!!!")),
    HandMade("malformed", Str("?card=abcde")),
    HandMade("malformed", Str("?card=%FF%FE")),
    HandMade("malformed", CardQuery(TokenOf("{\"firstName\":\"Ann\""))),
    HandMade("malformed", CardQuery(TokenOf("John Doe"))),
    HandMade("malformed", CardQuery(<<37, 54, 49>> \o TokenOf("{}"))),
    HandMade("not-a-card", Str("?card=e30=")),
    HandMade("not-a-card", Str("?ref=mail&card=e30%3D")),
    HandMade("not-a-card", CardQuery(TokenOf("5"))),
    HandMade("not-a-card", CardQuery(TokenOf("\"John Doe\""))),
    HandMade("not-a-card", CardQuery(TokenOf("true"))),
    HandMade("not-a-card", CardQuery(TokenOf("null"))),
    HandMade("not-a-card", CardQuery(TokenOf("{\"firstName\":\"Ann\",\"linkedin\":5}"))),
    HandMade("not-a-card", CardQuery(TokenOf("{\"cardColor\":{\"r\":255}}"))) }

Arrivals == LinkArrivals \cup QRArrivals \cup HandMadeArrivals

\* The cards the visitor's own storage may hold.
StoredCards ==
  { Null,
    CardOf(Str("Caf"), RemotePhoto, "two-slot", "set", TRUE),
    CardOf(Str("Student"), EmbeddedPhoto, "string", "absent", FALSE) }

InitPage ==
  /\ CodecIdle
  /\ SharePanelIdle
  /\ CropIdle
  /\ HomeIdle
  /\ UtilIdle
  /\ myCard \in StoredCards
  /\ \E a \in Arrivals :
       /\ locationSearch = a.search
       /\ arrival = [kind |-> a.kind, sent |-> a.sent]
  /\ viewingSharedCard = FALSE
  /\ sharedCardData = Null
  /\ view = MarkupView
  /\ shown = Undefined
  /\ form = MarkupForm
  /\ visitorUI = FALSE
  /\ escaped = FALSE
  /\ pagePc = "loading"

\* A try block that completes without viewingSharedCard set.
VisitingUnflagged(shared) ==
  /\ viewingSharedCard' = FALSE
  /\ sharedCardData' = shared.cardData
  /\ view' = shared.view
  /\ form' = shared.form
  /\ shown' = shared.cardData
  /\ visitorUI' = TRUE
  /\ escaped' = FALSE

\* The page after the try block of checkForSharedCard completed for the
\* decoded value got.
Visiting(shared) ==
  /\ viewingSharedCard' = TRUE
  /\ sharedCardData' = shared.cardData
  /\ view' = shared.view
  /\ form' = shared.form
  /\ shown' = shared.cardData
  /\ visitorUI' = TRUE
  /\ escaped' = FALSE

\* The page after loadMyCard() ran over the card elements and form given,
\* sharedCardData being what the try block left.
AtHome(decodedValue, oldView, oldForm) ==
  \E mine \in {loadMyCard(myCard, oldView, oldForm)} :
    /\ viewingSharedCard' = FALSE
    /\ sharedCardData' = decodedValue
    /\ view' = mine.applied.view
    /\ form' = mine.applied.form
    /\ shown' = IF mine.applied.threw THEN shown ELSE mine.applied.cardData
    /\ visitorUI' = FALSE
    /\ escaped' = mine.applied.threw

\* What the try block of checkForSharedCard makes of a card parameter that
\* is not empty: nothing when decodeObj throws, and what applyCardData makes
\* of the decoded value otherwise.
TryShared(cardData, oldView, oldForm, oldData) ==
  The({ IF got.ok THEN applyCardData(got.v, TRUE, oldView, oldForm)
        ELSE [threw |-> TRUE, view |-> oldView, form |-> oldForm, cardData |-> oldData] :
          got \in {decodeObj(cardData.s)} })

\* checkForSharedCard(), the first call of the DOMContentLoaded listener.
CheckForSharedCard ==
  /\ pagePc = "loading"
  /\ pagePc' = "loaded"
  /\ \E cardData \in {SearchParam(locationSearch, Str("card"))} :
     \E tried \in {IF Truthy(cardData)
                   THEN TryShared(cardData, view, form, sharedCardData)
                   ELSE [threw |-> TRUE, view |-> view, form |-> form,
                         cardData |-> sharedCardData]} :
       IF Truthy(cardData) /\ ~tried.threw
       THEN Visiting(tried)
       ELSE AtHome(tried.cardData, tried.view, tried.form)
  /\ UNCHANGED <<exceptPage, myCard, locationSearch, arrival>>

NextPage == CheckForSharedCard

SpecPage == InitPage /\ [][NextPage]_vars

(***************************************************************************)
(* Properties of the page load                                             *)
(***************************************************************************)

\* The card loadMyCard applies.
OwnCard == IF Truthy(myCard) THEN myCard ELSE DEFAULT_CARD

\* C2. The token survives the query string: a page opened from a share link
\* or a QR code of the app ends in viewing mode with sharedCardData equal,
\* field for field, to the record that was encoded.
TokenSurvives ==
  (pagePc = "loaded" /\ arrival.kind \in {"link", "qr"})
    => /\ viewingSharedCard
       /\ SameShareFields(sharedCardData, arrival.sent)

\* C5. Decode failure falls back: after a load with a card parameter that
\* atob, decodeURIComponent or JSON.parse rejects, no exception has left
\* checkForSharedCard, the card elements show the stored card (the default
\* card when none is stored) and viewingSharedCard is false.
DecodeFallback ==
  (pagePc = "loaded" /\ arrival.kind = "malformed")
    => /\ ~escaped
       /\ ~viewingSharedCard
       /\ view = Rendered(OwnCard)
       /\ shown = AfterApply(OwnCard)

\* A malformed parameter was met by a visitor with a stored card.
DecodeFallbackWitness ==
  /\ pagePc = "loaded"
  /\ arrival.kind = "malformed"
  /\ Truthy(myCard)
  /\ view.fullName = ToStr(Get(myCard, kFirstName)) \o <<32>> \o ToStr(Get(myCard, kLastName))

\* A card record: an object whose name, email and colour fields are strings.
IsCard(v) ==
  /\ v.t = "object"
  /\ \A k \in {kFirstName, kLastName, kEmail, kCardColor, kBgColor} :
       Get(v, k).t = "string"

\* C6. A valid card is always displayed: after the page load, whatever the
\* card parameter, the card applied to the view is a card record.
ValidCardShown ==
  pagePc = "loaded" => /\ IsCard(shown)
                       /\ view = Rendered(shown)

(***************************************************************************)
(* Settings module: the image crop tool                                    *)
(***************************************************************************)

\* The side of #cropContainer, a square: its clientWidth, its clientHeight
\* and the width and height of its bounding rectangle.
ViewportSide == 300

\* The values the zoom slider can be moved to, in percent.
SliderValues == {50, 100, 150, 200}

\* The files the user picks from, with image.naturalWidth and
\* image.naturalHeight once loaded.
Images == {"square.png", "landscape.png"}
NaturalSize(src) ==
  CASE src = "square.png" -> [width |-> 800, height |-> 800]
    [] src = "landscape.png" -> [width |-> 1200, height |-> 800]
    [] OTHER -> [width |-> 0, height |-> 0]

\* clientX and clientY of the pointer and touch events.
Points == { [x |-> 100, y |-> 100], [x |-> 160, y |-> 130] }

\* The files chosen, pointer moves and slider inputs of one behaviour.
MaxSteps == 3

\* image.naturalWidth and image.naturalHeight: those of the image the element
\* holds, which after a change of src is still the earlier image (none at
\* first) until the new source has loaded.
Natural(image) ==
  NaturalSize(image.current)

\* image.getBoundingClientRect(): the styled box under the element's
\* transform, whose origin is the box's top-left corner; left and top are
\* taken from the container's.
ImageRect(image) ==
  [ left |-> image.transform.x, top |-> image.transform.y,
    width |-> Times(image.width, image.transform.scale),
    height |-> Times(image.height, image.transform.scale) ]

\* updateCropImagePosition(): translate(x, y) scale(s), origin 0 0
updateCropImagePosition(state) ==
  [x |-> state.position.x, y |-> state.position.y, scale |-> state.scale]

\* cropImage.onload: the styled size of the image in the container
FittedSize(natural, containerSize) ==
  The({ IF Greater(imageAspect, One)
          THEN [width |-> Times(Px(containerSize), imageAspect), height |-> Px(containerSize)]
          ELSE [width |-> Px(containerSize), height |-> Over(Px(containerSize), imageAspect)]
        : imageAspect \in {Over(Px(natural.width), Px(natural.height))} })

\* centerCropImage(): the position it computes from the two rectangles
CentredPosition(imageRect) ==
  [ x |-> Over(Minus(Px(ViewportSide), imageRect.width), Px(2)),
    y |-> Over(Minus(Px(ViewportSide), imageRect.height), Px(2)) ]

\* A move that places the image's corner at the pointer.
DraggedNoAnchor(pt, dragStart) == [x |-> Px(pt.x), y |-> Px(pt.y)]

\* The position dragStart yields for a pointer at pt.
Dragged(pt, dragStart) ==
  [x |-> Minus(Px(pt.x), dragStart.x), y |-> Minus(Px(pt.y), dragStart.y)]

\* zoomSlider.oninput without the adjustment of the position
ZoomedPositionKept(position, center, scaleDiff) == position

\* zoomSlider.oninput: center - (center - position) * scaleDiff on each axis
ZoomedPosition(position, center, scaleDiff) ==
  [ x |-> Minus(center, Times(Minus(center, position.x), scaleDiff)),
    y |-> Minus(center, Times(Minus(center, position.y), scaleDiff)) ]

\* saveCrop() measuring the image by its styled width, not its rectangle
CropOfUnscaled(image) ==
  The({ [ image |-> IF image.current = "" THEN "blank" ELSE image.current,
          sourceX |-> Times(Minus(Zero, image.transform.x), scaleRatio),
          sourceY |-> Times(Minus(Zero, image.transform.y), scaleRatio),
          sourceSize |-> Times(Px(ViewportSide), scaleRatio) ]
        : scaleRatio \in {Over(Px(Natural(image).width), image.width)} })

\* saveCrop(): the source square handed to drawImage, and the image drawn
\* (the one the element holds; nothing is drawn while it holds none).
CropOf(image) ==
  The({ The({ [ image |-> IF image.current = "" THEN "blank" ELSE image.current,
                sourceX |-> Times(Minus(Zero, imageRect.left), scaleRatio),
                sourceY |-> Times(Minus(Zero, imageRect.top), scaleRatio),
                sourceSize |-> Times(Px(ViewportSide), scaleRatio) ]
              : scaleRatio \in {Over(Px(Natural(image).width), imageRect.width)} })
        : imageRect \in {ImageRect(image)} })

\* A number as canvas.toDataURL writes the pixels it fixed.
RatText(r) ==
  (IF r[1] < 0 THEN <<45>> ELSE <<>>) \o Digits(Abs(r[1])) \o <<47>> \o Digits(r[2])

\* canvas.toDataURL('image/jpeg', 0.85) of the canvas saveCrop drew: a JPEG
\* of 800 x 800 pixels, whose text is fixed by the image and the square drawn.
toDataURL(crop) ==
  StrV(Str("data:image/jpeg;base64,") \o Str(crop.image) \o <<47>>
         \o RatText(crop.sourceX) \o <<47>> \o RatText(crop.sourceY) \o <<47>>
         \o RatText(crop.sourceSize) \o [i \in 1..100 |-> 65])

\* uploadedImageData as a value of the script: null, or the text stored.
UploadValue(upload) == IF upload = NoUpload THEN Null ELSE toDataURL(upload)

InitCrop ==
  /\ CodecIdle
  /\ ShareIdle
  /\ PageIdle
  /\ CropIdle
  /\ HomeIdle
  /\ UtilIdle

\* #profilePicInput change: a file is chosen and a FileReader started
SelectFile(file) ==
  /\ (cropSteps.files + cropSteps.moves) < MaxSteps
  /\ file # profilePicInput
  /\ profilePicInput' = file
  /\ reading' = Append(reading, file)
  /\ cropSteps' = [cropSteps EXCEPT !.files = @ + 1]
  /\ UNCHANGED <<cropState, cropImage, zoomSlider, cropModalActive, listeners,
                 uploadedImageData, exceptCrop>>

\* fileReader.onload: openCropModal(imageDataUrl), with setupCropListeners()
FileRead(i) ==
  /\ i \in 1..Len(reading)
  /\ reading' = [j \in 1..(Len(reading) - 1) |-> IF j < i THEN reading[j] ELSE reading[j + 1]]
  /\ cropState' = [cropState EXCEPT !.originalImage = reading[i],
                                    !.scale = One,
                                    !.position = Origin,
                                    !.isDragging = FALSE]
  /\ cropImage' = [cropImage EXCEPT !.src = reading[i], !.pending = TRUE]
  /\ zoomSlider' = 100
  /\ cropModalActive' = TRUE
  /\ listeners' = [bound |-> TRUE, mouse |-> TRUE]
  /\ UNCHANGED <<profilePicInput, uploadedImageData, cropSteps, exceptCrop>>

\* cropImage.onload: the fitted size, then centerCropImage()
ImageLoad ==
  /\ cropImage.pending
  /\ \E fitted \in {FittedSize(NaturalSize(cropImage.src), ViewportSide)} :
     \E sized \in {[cropImage EXCEPT !.pending = FALSE,
                                     !.current = cropImage.src,
                                     !.width = fitted.width,
                                     !.height = fitted.height]} :
     \E centred \in {[cropState EXCEPT !.position = CentredPosition(ImageRect(sized))]} :
       /\ cropState' = centred
       /\ cropImage' = [sized EXCEPT !.transform = updateCropImagePosition(centred)]
  /\ UNCHANGED <<zoomSlider, cropModalActive, listeners, reading, profilePicInput,
                 uploadedImageData, cropSteps, exceptCrop>>

\* container.onmousedown, and the touchstart listener of the container
BeginDrag(pt) ==
  /\ cropModalActive
  /\ cropState' = [cropState EXCEPT
                     !.isDragging = TRUE,
                     !.dragStart = [x |-> Minus(Px(pt.x), cropState.position.x),
                                    y |-> Minus(Px(pt.y), cropState.position.y)]]
  /\ UNCHANGED <<cropImage, zoomSlider, cropModalActive, listeners, reading,
                 profilePicInput, uploadedImageData, cropSteps, exceptCrop>>

MouseDown(pt) == listeners.bound /\ BeginDrag(pt)
TouchStart(pt) == listeners.bound /\ BeginDrag(pt)

\* document.onmousemove, and the touchmove listener of the document
Drag(pt) ==
  /\ IF cropState.isDragging
       THEN /\ (cropSteps.files + cropSteps.moves) < MaxSteps
            /\ \E moved \in {[cropState EXCEPT !.position = Dragged(pt, cropState.dragStart)]} :
                 /\ cropState' = moved
                 /\ cropImage' = [cropImage EXCEPT !.transform = updateCropImagePosition(moved)]
            /\ cropSteps' = [cropSteps EXCEPT !.moves = @ + 1]
       ELSE UNCHANGED <<cropState, cropImage, cropSteps>>
  /\ UNCHANGED <<zoomSlider, cropModalActive, listeners, reading, profilePicInput,
                 uploadedImageData, exceptCrop>>

MouseMove(pt) == listeners.mouse /\ Drag(pt)
TouchMove(pt) == listeners.bound /\ Drag(pt)

\* document.onmouseup, and the touchend listener of the document
EndDrag ==
  /\ cropState' = [cropState EXCEPT !.isDragging = FALSE]
  /\ UNCHANGED <<cropImage, zoomSlider, cropModalActive, listeners, reading,
                 profilePicInput, uploadedImageData, cropSteps, exceptCrop>>

MouseUp == listeners.mouse /\ EndDrag
TouchEnd == listeners.bound /\ EndDrag

\* zoomSlider.oninput
ZoomInput(value) ==
  /\ listeners.bound
  /\ cropModalActive
  /\ value # zoomSlider
  /\ (cropSteps.files + cropSteps.moves) < MaxSteps
  /\ zoomSlider' = value
  /\ \E newScale \in {Over(Px(value), Px(100))} :
     \E scaleDiff \in {Over(newScale, cropState.scale)} :
     \E center \in {Over(Px(ViewportSide), Px(2))} :
     \E zoomed \in {[cropState EXCEPT
                       !.position = ZoomedPosition(cropState.position, center, scaleDiff),
                       !.scale = newScale]} :
       /\ cropState' = zoomed
       /\ cropImage' = [cropImage EXCEPT !.transform = updateCropImagePosition(zoomed)]
  /\ cropSteps' = [cropSteps EXCEPT !.moves = @ + 1]
  /\ UNCHANGED <<cropModalActive, listeners, reading, profilePicInput,
                 uploadedImageData, exceptCrop>>

\* cancelCrop()
CancelCrop ==
  /\ cropModalActive
  /\ cropModalActive' = FALSE
  /\ profilePicInput' = ""
  /\ listeners' = [listeners EXCEPT !.mouse = FALSE]
  /\ UNCHANGED <<cropState, cropImage, zoomSlider, reading, uploadedImageData,
                 cropSteps, exceptCrop>>

\* saveCrop(): the square is stored, and shown as the card's photo.
SaveCrop ==
  /\ cropModalActive
  /\ uploadedImageData' = CropOf(cropImage)
  /\ view' = [view EXCEPT !.profilePicUrl = toDataURL(CropOf(cropImage)).s]
  /\ cropModalActive' = FALSE
  /\ listeners' = [listeners EXCEPT !.mouse = FALSE]
  /\ UNCHANGED <<cropState, cropImage, zoomSlider, reading, profilePicInput,
                 cropSteps, codecVars, shareVars, homeVars, utilVars, locationSearch,
                 arrival,
                 viewingSharedCard, sharedCardData, shown, form, visitorUI, escaped,
                 pagePc>>

NextCrop ==
  \/ \E file \in Images : SelectFile(file)
  \/ \E i \in 1..MaxSteps : FileRead(i)
  \/ ImageLoad
  \/ \E pt \in Points : MouseDown(pt)
  \/ \E pt \in Points : MouseMove(pt)
  \/ MouseUp
  \/ \E pt \in Points : TouchStart(pt)
  \/ \E pt \in Points : TouchMove(pt)
  \/ TouchEnd
  \/ \E value \in SliderValues : ZoomInput(value)
  \/ CancelCrop
  \/ SaveCrop

SpecCrop == InitCrop /\ [][NextCrop]_vars

(***************************************************************************)
(* Properties of the crop tool                                             *)
(***************************************************************************)

\* The step in which the load event of #cropImage is delivered.
ImageLoaded == cropImage.pending /\ ~cropImage'.pending

\* The position that centres a box of the given size in the container.
Centred(size) ==
  [ x |-> Over(Minus(Px(ViewportSide), size.width), Px(2)),
    y |-> Over(Minus(Px(ViewportSide), size.height), Px(2)) ]

\* C9. Load resets and centres: every load of an image into the crop tool,
\* the first as well as one that follows a session in which the user panned
\* or zoomed, ends with scale 1, no drag in progress and the position
\* (viewport - displaySize) / 2 on each axis, displaySize being the fitted
\* size of the newly loaded image.
LoadResetsAndCentres ==
  [][ImageLoaded =>
       /\ cropState'.scale = One
       /\ ~cropState'.isDragging
       /\ cropState'.position =
            Centred(FittedSize(NaturalSize(cropImage'.src), ViewportSide))]_vars

\* The step in which the zoom slider is moved (openCropModal, which also
\* sets the slider, takes a file from those being read).
ZoomStep == zoomSlider' # zoomSlider /\ reading' = reading

\* The point of the image, in its own pixels at scale 1, under the centre
\* of the container.
ImagePoint(state) ==
  [ x |-> Over(Minus(Over(Px(ViewportSide), Px(2)), state.position.x), state.scale),
    y |-> Over(Minus(Over(Px(ViewportSide), Px(2)), state.position.y), state.scale) ]

\* C10. Zoom keeps the viewport centre fixed: from any position and scale
\* s > 0 reached by drags and zooms, moving the slider to s' > 0 sets the
\* position to center - (center - position) * (s' / s) on each axis and then
\* the scale to s', so the image point under the centre of the viewport is
\* the same before and after.
ZoomKeepsCentre ==
  [][(ZoomStep /\ Greater(cropState.scale, Zero) /\ zoomSlider' > 0) =>
       /\ cropState'.scale = Over(Px(zoomSlider'), Px(100))
       /\ \A axis \in {"x", "y"} :
            cropState'.position[axis] =
              Minus(Over(Px(ViewportSide), Px(2)),
                    Times(Minus(Over(Px(ViewportSide), Px(2)), cropState.position[axis]),
                          Over(cropState'.scale, cropState.scale)))
       /\ ImagePoint(cropState') = ImagePoint(cropState)]_vars

\* The image was loaded and centred, dragged away, and then zoomed.
ZoomKeepsCentreWitness ==
  /\ cropModalActive
  /\ ~cropImage.pending
  /\ cropSteps.moves = 2
  /\ cropState.scale = Over(Px(zoomSlider), Px(100))
  /\ cropState.scale # One
  /\ ImagePoint(cropState) # [x |-> Over(cropImage.width, Px(2)),
                              y |-> Over(cropImage.height, Px(2))]

\* An image has loaded into #cropImage and has been fitted.
ImageShown == ~cropImage.pending /\ cropImage.current \in Images

\* The square image, loaded and centred, shown at the given scale with the
\* image point it was centred on still under the centre of the viewport.
SquareCentredAt(scale) ==
  /\ ImageShown
  /\ cropImage.src = "square.png"
  /\ cropImage.transform = updateCropImagePosition(cropState)
  /\ cropState.scale = scale
  /\ ImagePoint(cropState) = [x |-> Over(cropImage.width, Px(2)),
                              y |-> Over(cropImage.height, Px(2))]

\* C11. Crop math: the square saveCrop draws from a loaded image has its
\* top-left at (viewport position - image position) * (naturalWidth /
\* displayed width) and its side is viewportSide * (naturalWidth / displayed
\* width).  For the square image centred at scale 1 that is the whole
\* natural image; after a zoom to scale 2 with no pan it is a square of half
\* the side around the same centre of the image.
CropMath ==
  [][(SaveCrop /\ ImageShown) =>
       /\ \E ratio \in {Over(Px(NaturalSize(cropImage.src).width),
                             Times(cropImage.width, cropImage.transform.scale))} :
            /\ uploadedImageData'.sourceX = Times(Minus(Zero, cropImage.transform.x), ratio)
            /\ uploadedImageData'.sourceY = Times(Minus(Zero, cropImage.transform.y), ratio)
            /\ uploadedImageData'.sourceSize = Times(Px(ViewportSide), ratio)
       /\ SquareCentredAt(One) =>
            uploadedImageData' = [image |-> "square.png", sourceX |-> Zero,
                                  sourceY |-> Zero, sourceSize |-> Px(800)]
       /\ SquareCentredAt(Px(2)) =>
            uploadedImageData' = [image |-> "square.png", sourceX |-> Px(200),
                                  sourceY |-> Px(200), sourceSize |-> Px(400)]]_vars

\* The square image was zoomed to scale 2 and saved: a quarter of its area.
CropMathWitness ==
  /\ ~cropModalActive
  /\ cropState.scale = Px(2)
  /\ cropImage.src = "square.png"
  /\ uploadedImageData = [image |-> "square.png", sourceX |-> Px(200),
                          sourceY |-> Px(200), sourceSize |-> Px(400)]

\* C12. Load precedes rasterize: saveCrop runs only after the image chosen
\* for the current crop session has loaded and has been fitted; it never
\* draws from no image, from an image that has not been fitted, or from the
\* image of the session before.
LoadPrecedesRasterize ==
  [][SaveCrop =>
       /\ ~cropImage.pending
       /\ cropImage.current = cropState.originalImage
       /\ [width |-> cropImage.width, height |-> cropImage.height] =
            FittedSize(NaturalSize(cropState.originalImage), ViewportSide)
       /\ uploadedImageData'.image = cropState.originalImage]_vars

\* C13. Drag is safe out of order and unclamped: a mouse or touch move
\* delivered while no drag is in progress changes nothing of the crop state
\* or the image; a press sets the anchor to pointer - offset and leaves the
\* offset alone; and while a drag is in progress a move sets the offset to
\* pointer - anchor, whatever the result, leaving scale and anchor alone, so
\* the offset has moved since the press by as much as the pointer has.
DragSafe ==
  [][\A pt \in Points :
       /\ ((MouseMove(pt) \/ TouchMove(pt)) /\ ~cropState.isDragging)
            => (cropState' = cropState /\ cropImage' = cropImage)
       /\ (MouseDown(pt) \/ TouchStart(pt))
            => /\ cropState'.position = cropState.position
               /\ cropState'.dragStart =
                    [x |-> Minus(Px(pt.x), cropState.position.x),
                     y |-> Minus(Px(pt.y), cropState.position.y)]
       /\ ((MouseMove(pt) \/ TouchMove(pt)) /\ cropState.isDragging)
            => /\ cropState'.position =
                    [x |-> Minus(Px(pt.x), cropState.dragStart.x),
                     y |-> Minus(Px(pt.y), cropState.dragStart.y)]
               /\ cropState'.scale = cropState.scale
               /\ cropState'.dragStart = cropState.dragStart
               /\ cropState'.isDragging]_vars

\* A drag in progress has moved the loaded image off its centred position.
DragSafeWitness ==
  /\ cropState.isDragging
  /\ cropSteps.moves > 0
  /\ ImageShown
  /\ cropState.scale = One
  /\ cropState.position # Centred([width |-> cropImage.width, height |-> cropImage.height])
  /\ \E pt \in Points :
       cropState.position = [x |-> Minus(Px(pt.x), cropState.dragStart.x),
                             y |-> Minus(Px(pt.y), cropState.dragStart.y)]

(***************************************************************************)
(* js/storage.js: the contact list in localStorage                         *)
(***************************************************************************)

\* JSON.parse(JSON.stringify(v)): what getItem reads of a value setItem wrote.
Revived(v) == JSONParse(JSONStringify(v)).v

\* a === b, a being read from storage and b a value of the page: two objects
\* are never the same object.
StrictEquals(a, b) == a.t # "object" /\ a = b

\* contact.savedAt = at, which a primitive ignores.
Stamped(contact, at) ==
  IF contact.t = "object" THEN SpreadWith(contact, kSavedAt, at) ELSE contact

\* new Date().toISOString() at second t of the minute
toISOString(t) == StrV(Str("2025-03-01T09:30:0") \o Digits(t) \o Str(".000Z"))

\* contacts.some(...) that answers false for every list.
ContactExistsNever(contacts, contact) == FALSE

\* contacts.some(c => c.firstName === contact.firstName && ...)
ContactExists(contacts, contact) ==
  \E i \in 1..Len(contacts) :
    /\ StrictEquals(Get(contacts[i], kFirstName), Get(contact, kFirstName))
    /\ StrictEquals(Get(contacts[i], kLastName), Get(contact, kLastName))
    /\ StrictEquals(Get(contacts[i], kEmail), Get(contact, kEmail))

\* saveSavedContacts(contacts) over the stored list: the list stored
\* afterwards and the value returned.  stores is FALSE when setItem throws.
saveSavedContacts(stored, contacts, stores) ==
  [ contacts |-> IF stores THEN [i \in 1..Len(contacts) |-> Revived(contacts[i])]
                 ELSE stored,
    returned |-> stores ]

\* addContact(contact) at time now: the list stored afterwards, the value
\* returned, contact afterwards, and what became of the write.
addContact(stored, contact, now, stores) ==
  IF ContactExists(stored, contact)
  THEN [ contacts |-> stored, returned |-> FALSE, contact |-> contact,
         write |-> "none" ]
  ELSE The({ [ contacts |-> saved.contacts, returned |-> saved.returned,
               contact |-> stamped,
               write |-> IF stores THEN "ok" ELSE "failed" ] :
                 stamped \in {Stamped(contact, toISOString(now))},
                 saved \in {saveSavedContacts(stored,
                              Append(stored, Stamped(contact, toISOString(now))),
                              stores)} })

\* contacts.splice(index, 1), index counted from 0
Spliced(contacts, index) ==
  SubSeq(contacts, 1, index) \o SubSeq(contacts, index + 2, Len(contacts))

\* removeContact(index)
removeContact(stored, index, stores) ==
  IF index < 0 \/ index >= Len(stored)
  THEN [ contacts |-> stored, returned |-> FALSE, write |-> "none" ]
  ELSE The({ [ contacts |-> saved.contacts, returned |-> saved.returned,
               write |-> IF stores THEN "ok" ELSE "failed" ] :
                 saved \in {saveSavedContacts(stored, Spliced(stored, index), stores)} })

(***************************************************************************)
(* js/utils.js: the helpers saveSettings calls                             *)
(***************************************************************************)

\* c.toUpperCase() and c.toLowerCase() of one code unit, for the Latin
\* letters of ASCII; the texts the model types have no other letters.
UpperUnit(c) == IF IsLower(c) THEN c - 32 ELSE c
LowerUnit(c) == IF IsUpper(c) THEN c + 32 ELSE c
toLowerCase(s) == [i \in 1..Len(s) |-> LowerUnit(s[i])]

\* s.includes(sub), s.endsWith(sub)
Includes(s, sub) ==
  \E i \in 1..(Len(s) - Len(sub) + 1) : SubSeq(s, i, i + Len(sub) - 1) = sub
EndsWith(s, sub) ==
  Len(s) >= Len(sub) /\ SubSeq(s, Len(s) - Len(sub) + 1, Len(s)) = sub

\* s.split(d) for a one-unit d: the pieces between the occurrences of d.
RECURSIVE Split(_, _)
Split(s, d) ==
  IF \A i \in 1..Len(s) : s[i] # d THEN <<s>>
  ELSE The({ <<SubSeq(s, 1, at - 1)>> \o Split(SubSeq(s, at + 1, Len(s)), d) :
               at \in {CHOOSE i \in 1..Len(s) :
                         s[i] = d /\ \A k \in 1..(i - 1) : s[k] # d} })

\* pieces.join(d) for a one-unit d
Join(pieces, d) ==
  Flat([i \in 1..Len(pieces) |-> IF i = 1 THEN pieces[i] ELSE <<d>> \o pieces[i]])

\* s.replace(/\s+/g, by): every run of white space replaced by the text by.
ReplaceSpaceRuns(s, by) ==
  Flat([i \in 1..Len(s) |->
          IF ~IsWhiteSpace(s[i]) THEN <<s[i]>>
          ELSE IF i > 1 /\ IsWhiteSpace(s[i - 1]) THEN <<>> ELSE by])

particles ==
  { Str("de"), Str("del"), Str("la"), Str("las"), Str("los"), Str("da"),
    Str("das"), Str("dos"), Str("van"), Str("von"), Str("der"), Str("den"),
    Str("le"), Str("du"), Str("di") }

\* part.charAt(0).toUpperCase() + part.slice(1)
UpperFirst(part) ==
  IF part = <<>> THEN <<>> ELSE <<UpperUnit(part[1])>> \o Tail(part)

\* lower.split(d).map(part => ...).join(d)
CapitalizeParts(lower, d) ==
  The({ Join([i \in 1..Len(pieces) |-> UpperFirst(pieces[i])], d) :
          pieces \in {Split(lower, d)} })

\* capitalize(word) of formatName
capitalize(word) ==
  The({ IF lower \in particles THEN lower
        ELSE IF Includes(lower, <<45>>) THEN CapitalizeParts(lower, 45)
        ELSE IF Includes(lower, <<39>>) THEN CapitalizeParts(lower, 39)
        ELSE UpperFirst(lower) :
          lower \in {toLowerCase(word)} })

IsLetter(c) == IsUpper(c) \/ IsLower(c)

\* formatName(name, isLastName) for a string name: the formatted name, or
\* null for a name that is not valid.
formatName(name, isLastName) ==
  The({ IF \/ normal = <<>>
           \/ \E i \in 1..Len(normal) :
                ~(IsLetter(normal[i]) \/ normal[i] \in {39, 45}
                  \/ (isLastName /\ normal[i] = 32))
           \/ Len(normal) > 30
        THEN Null
        ELSE The({ StrV(Join([i \in 1..Len(parts) |-> capitalize(parts[i])], 32)) :
                     parts \in {IF isLastName THEN Split(normal, 32) ELSE <<normal>>} }) :
          normal \in {ReplaceSpaceRuns(Trim(name),
                                       IF isLastName THEN <<32>> ELSE <<>>)} })

\* getEmailErrors(email) for a string email: the errors it lists, each named
\* by the check that adds it.
getEmailErrors(email) ==
  The({ SelectSeq(
          << IF Len(trimmed) < 5 \/ Len(trimmed) > 80 THEN "length" ELSE "",
             IF Len(at) # 1 THEN "one-at" ELSE "",
             IF Includes(trimmed, Str("..")) THEN "consecutive-dots" ELSE "",
             IF StartsWith(trimmed, Str(".")) THEN "starts-with-dot" ELSE "",
             IF EndsWith(trimmed, Str(".")) THEN "ends-with-dot" ELSE "",
             IF StartsWith(trimmed, Str("-")) THEN "starts-with-dash" ELSE "",
             IF Len(at) = 1 /\ localPart = <<>> THEN "no-local-part" ELSE "",
             IF Len(at) = 1 /\ ~Includes(domainPart, Str(".")) THEN "domain-dot" ELSE "",
             IF Len(at) = 1 /\ Includes(domainPart, Str(".."))
               THEN "domain-consecutive-dots" ELSE "",
             IF Len(at) = 1 /\ StartsWith(domainPart, Str("."))
               THEN "domain-starts-with-dot" ELSE "",
             IF Len(at) = 1 /\ EndsWith(domainPart, Str("."))
               THEN "domain-ends-with-dot" ELSE "",
             IF Len(at) = 1 /\ \E i \in 1..Len(domainPart) : IsDigit(domainPart[i])
               THEN "domain-digit" ELSE "",
             IF Len(at) = 1 /\ Len(tld) < 2 THEN "tld" ELSE "" >>,
          LAMBDA e : e # "") :
            trimmed \in {toLowerCase(Trim(email))},
            at \in {SelectSeq(toLowerCase(Trim(email)), LAMBDA c : c = 64)},
            localPart \in {Split(toLowerCase(Trim(email)), 64)[1]},
            domainPart \in {IF Len(Split(toLowerCase(Trim(email)), 64)) > 1
                            THEN Split(toLowerCase(Trim(email)), 64)[2] ELSE <<>>},
            tld \in {The({ pieces[Len(pieces)] :
                       pieces \in {Split(IF Len(Split(toLowerCase(Trim(email)), 64)) > 1
                                         THEN Split(toLowerCase(Trim(email)), 64)[2]
                                         ELSE <<>>, 46)} })} })

\* /^https?:\/\//i.test(url)
HasProtocol(url) ==
  \/ StartsWith(toLowerCase(url), Str("http://"))
  \/ StartsWith(toLowerCase(url), Str("https://"))

\* fixUrl with the protocol test left out: every url that is not blank gets
\* the prefix.
fixUrlAlways(url) ==
  The({ IF trimmed = <<>> THEN <<>> ELSE Str("https://") \o trimmed :
          trimmed \in {Trim(url)} })

\* fixUrl(url) for a string url
fixUrl(url) ==
  The({ IF trimmed = <<>> THEN <<>>
        ELSE IF HasProtocol(trimmed) THEN trimmed
        ELSE Str("https://") \o trimmed :
          trimmed \in {Trim(url)} })

\* isHexColor(value) for a string value
isHexColor(value) ==
  The({ /\ Len(trimmed) \in {4, 7}
        /\ trimmed[1] = 35
        /\ \A i \in 2..Len(trimmed) : IsHexDigit(trimmed[i]) :
          trimmed \in {Trim(value)} })

\* pickColor(textVal, pickerVal, fallback) for strings
pickColor(textVal, pickerVal, fallback) ==
  The({ IF isHexColor(trimmed) THEN toLowerCase(trimmed)
        ELSE IF isHexColor(pickerVal) THEN toLowerCase(pickerVal)
        ELSE fallback :
          trimmed \in {Trim(textVal)} })

(***************************************************************************)
(* The session: page loads, the home panel (part_002) and the reset of     *)
(* the settings panel (part_000), over the storage of one browser.         *)
(***************************************************************************)

\* The handlers one browser runs.
MaxSessionSteps == 4

\* The seconds of the minute at which a record is stamped.
Clock == {7}

\* The pages the user opens: the app itself, and links to the cards of Ann
\* Lee (twice, the second with a job title), of a namesake with another
\* address, of a sender with no fields, and a value applyCardData throws on.
AppPage == HandMade("none", <<>>)
AnnLeeLink ==
  HandMade("card", CardQuery(TokenOf(
    "{\"firstName\":\"Ann\",\"lastName\":\"Lee\",\"email\":\"a@x.co\"}")))

Visits ==
  { AppPage, AnnLeeLink,
    HandMade("card", CardQuery(TokenOf(
      "{\"firstName\":\"Ann\",\"lastName\":\"Lee\",\"email\":\"a@x.co\",\"jobTitle\":\"CEO\"}"))),
    HandMade("card", CardQuery(TokenOf(
      "{\"firstName\":\"Ann\",\"lastName\":\"Lee\",\"email\":\"b@x.co\"}"))),
    HandMade("not-a-card", Str("?card=e30=")),
    HandMade("not-a-card", CardQuery(TokenOf("null"))) }

InitSession ==
  /\ CodecIdle
  /\ SharePanelIdle
  /\ CropIdle
  /\ HomeIdle
  /\ UtilIdle
  /\ myCard \in StoredCards
  /\ \E a \in Visits :
       /\ locationSearch = a.search
       /\ arrival = [kind |-> a.kind, sent |-> a.sent]
  /\ viewingSharedCard = FALSE
  /\ sharedCardData = Null
  /\ view = MarkupView
  /\ shown = Undefined
  /\ form = MarkupForm
  /\ visitorUI = FALSE
  /\ escaped = FALSE
  /\ pagePc = "loading"

\* What a handler leaves alone outside the page and the two stored records.
exceptSession == <<codecVars, link, sharePanelActive, qrRuns, qrContainer, cropVars,
                   utilVars>>

Loaded == pagePc = "loaded" /\ sessionSteps < MaxSessionSteps

Ran(name, write, alerts, threw) ==
  /\ lastOp' = [name |-> name, write |-> write, alerts |-> alerts, threw |-> threw]
  /\ sessionSteps' = sessionSteps + 1

\* The user opens another page in the same browser: the script starts anew
\* over the storage left.
Navigate(a) ==
  /\ Loaded
  /\ locationSearch' = a.search
  /\ arrival' = [kind |-> a.kind, sent |-> a.sent]
  /\ viewingSharedCard' = FALSE
  /\ sharedCardData' = Null
  /\ view' = MarkupView
  /\ shown' = Undefined
  /\ form' = MarkupForm
  /\ visitorUI' = FALSE
  /\ escaped' = FALSE
  /\ pagePc' = "loading"
  /\ backToMyCard' = FALSE
  /\ Ran("none", "none", <<>>, FALSE)
  /\ UNCHANGED <<exceptSession, myCard, savedContacts>>

\* location.search.includes('card=') ? the address without its query
CleanUrl(search) ==
  IF \E i \in 1..Len(search) : StartsWith(SubSeq(search, i, Len(search)), Str("card="))
  THEN <<>> ELSE search

AlertDuplicate == "This contact is already in your collection!"
AlertSaved == "card saved to your contacts!"
AlertStorageFull == "Could not save your card (storage full). Try reducing image size."
AlertReset == "Card has been reset to default (John Doe)."

\* loadMyCard() as the last call of a handler named name that wrote
\* write and showed alerts: the page it leaves.  An exception of
\* applyCardData leaves the handler.
ThenLoadMyCard(name, write, alerts, cleanUrl) ==
  \E mine \in {loadMyCard(myCard, view, form)} :
    /\ viewingSharedCard' = FALSE
    /\ view' = mine.applied.view
    /\ form' = mine.applied.form
    /\ shown' = IF mine.applied.threw THEN shown ELSE mine.applied.cardData
    /\ locationSearch' = IF cleanUrl /\ ~mine.applied.threw
                         THEN CleanUrl(locationSearch) ELSE locationSearch
    /\ Ran(name, write, alerts, mine.applied.threw)

\* saveContact(), a click on #saveContactBtn
SaveContact ==
  /\ Loaded
  /\ visitorUI
  /\ IF ~Truthy(sharedCardData)
     THEN /\ Ran("saveContact", "none", <<>>, FALSE)
          /\ UNCHANGED <<savedContacts, sharedCardData, viewingSharedCard, view, form,
                         shown, locationSearch, visitorUI>>
     ELSE \E now \in Clock, stores \in BOOLEAN :
          \E added \in {addContact(savedContacts, sharedCardData, now, stores)} :
            /\ savedContacts' = added.contacts
            /\ IF ~added.returned
               THEN /\ sharedCardData' = added.contact
                    /\ Ran("saveContact", added.write, <<AlertDuplicate>>, FALSE)
                    /\ UNCHANGED <<viewingSharedCard, view, form, shown,
                                   locationSearch, visitorUI>>
               ELSE /\ sharedCardData' = Null
                    /\ visitorUI' = FALSE
                    /\ ThenLoadMyCard("saveContact", added.write, <<AlertSaved>>, TRUE)
  /\ UNCHANGED <<exceptSession, myCard, arrival, escaped, pagePc, backToMyCard>>

\* viewContact(index), a click on the entry of contacts[index]
ViewContact(index) ==
  /\ Loaded
  /\ index < Len(savedContacts)
  /\ \E applied \in {applyCardData(savedContacts[index + 1], viewingSharedCard,
                                   view, form)} :
       /\ view' = applied.view
       /\ form' = applied.form
       /\ shown' = IF applied.threw THEN shown ELSE applied.cardData
       /\ backToMyCard' = (backToMyCard \/ ~applied.threw)
       /\ Ran("viewContact", "none", <<>>, applied.threw)
  /\ UNCHANGED <<exceptSession, myCard, savedContacts, locationSearch, arrival,
                 viewingSharedCard, sharedCardData, visitorUI, escaped, pagePc>>

\* returnToMyCard(), a click on #backToMyCardBtn
ReturnToMyCard ==
  /\ Loaded
  /\ backToMyCard
  /\ backToMyCard' = FALSE
  /\ ThenLoadMyCard("returnToMyCard", "none", <<>>, FALSE)
  /\ UNCHANGED <<exceptSession, myCard, savedContacts, arrival, sharedCardData,
                 visitorUI, escaped, pagePc>>

\* deleteContact(index), the answer to its confirm() being confirmed
DeleteContact(index, confirmed) ==
  /\ Loaded
  /\ index < Len(savedContacts)
  /\ IF ~confirmed
     THEN /\ Ran("deleteContact", "none", <<>>, FALSE)
          /\ UNCHANGED savedContacts
     ELSE \E stores \in BOOLEAN :
          \E removed \in {removeContact(savedContacts, index, stores)} :
            /\ savedContacts' = removed.contacts
            /\ Ran("deleteContact", removed.write, <<>>, FALSE)
  /\ UNCHANGED <<exceptSession, myCard, pageVars, backToMyCard>>

\* resetToJohnDoe(), the answer to its confirm() being confirmed
ResetToJohnDoe(confirmed) ==
  /\ Loaded
  /\ IF ~confirmed
     THEN /\ Ran("resetToJohnDoe", "none", <<>>, FALSE)
          /\ UNCHANGED <<myCard, locationSearch, viewingSharedCard, sharedCardData,
                         view, form, shown>>
     ELSE \E applied \in {applyCardData(DEFAULT_CARD, FALSE, view, form)} :
            /\ myCard' = Null
            /\ locationSearch' = CleanUrl(locationSearch)
            /\ viewingSharedCard' = FALSE
            /\ sharedCardData' = Null
            /\ view' = applied.view
            /\ form' = applied.form
            /\ shown' = applied.cardData
            /\ Ran("resetToJohnDoe", "none", <<AlertReset>>, FALSE)
  /\ UNCHANGED <<exceptSession, savedContacts, arrival, visitorUI, escaped, pagePc,
                 backToMyCard>>

(***************************************************************************)
(* part_000: the settings form and saveSettings                            *)
(***************************************************************************)

\* The checkbox of portfolio type k is checked.
Checked(inputs, k) == Bool(\E i \in 1..Len(inputs.show) : inputs.show[i] = k)

\* The cardData object saveSettings builds once the form passed its checks.
FormCard(inputs, firstName, lastName, countryCode, localNumber, profilePicData, now) ==
  The({ Obj(<< <<kFirstName, firstName>>,
               <<kLastName, lastName>>,
               <<kJobTitle, StrV(inputs.jobTitle)>>,
               <<kEmail, StrV(toLowerCase(Trim(inputs.email)))>>,
               <<kPhone, Get(formattedPhone, kPretty)>>,
               <<kPhoneE164, Get(formattedPhone, kE164)>>,
               <<kCountryCode, countryCode>>,
               <<kLocalNumber, localNumber>>,
               <<kLinkedin, StrV(fixUrl(inputs.linkedin))>>,
               <<kCardColor, StrV(pickColor(inputs.cardColor, inputs.cardColorPicker,
                                            Str("#6366f1")))>>,
               <<kBgColor, StrV(pickColor(inputs.bgColor, inputs.bgColorPicker,
                                          Str("#6B46C1")))>>,
               <<kProfilePic, profilePicData>>,
               <<kPortfolioLinks,
                 Obj(<< <<kCert, StrV(fixUrl(inputs.cert))>>,
                        <<kEdu, StrV(fixUrl(inputs.edu))>>,
                        <<kProj, StrV(fixUrl(inputs.proj))>>,
                        <<kRef, StrV(fixUrl(inputs.ref))>>,
                        <<kResume, ResumeObj(StrV(fixUrl(inputs.resumePdf)),
                                             StrV(fixUrl(inputs.resumeDocx)))>>,
                        <<kWork, StrV(fixUrl(inputs.work))>> >>)>>,
               <<kPortfolioVisibility,
                 Obj(<< <<kCert, Checked(inputs, kCert)>>,
                        <<kEdu, Checked(inputs, kEdu)>>,
                        <<kProj, Checked(inputs, kProj)>>,
                        <<kRef, Checked(inputs, kRef)>>,
                        <<kResume, Checked(inputs, kResume)>>,
                        <<kWork, Checked(inputs, kWork)>> >>)>>,
               <<kLastUpdated, toISOString(now)>> >>) :
          formattedPhone \in {formatPhone(countryCode, localNumber)} })

\* A saveSettings that checks the two names only.
FormCheckedNamesOnly(inputs, upload, src, now) ==
  The({ IF ~Truthy(firstName) \/ ~Truthy(lastName)
        THEN [stopped |-> "firstName", notice |-> "Invalid first name.",
              cardData |-> Null]
        ELSE [stopped |-> "", notice |-> "",
              cardData |-> FormCard(inputs, firstName, lastName,
                                    StrV(Trim(inputs.countryCode)),
                                    StrV(Trim(inputs.localNumber)),
                                    OrElse(upload, StrV(src)), now)] :
          firstName \in {formatName(inputs.firstName, FALSE)},
          lastName \in {formatName(inputs.lastName, TRUE)} })

\* saveSettings() up to its call of saveMyCard, over the form inputs, with
\* uploadedImageData = upload and #profilePic.src = src, at time now:
\* the check that stopped it ("" when none did), the message it showed then,
\* and the cardData it built.
FormChecked(inputs, upload, src, now) ==
  The({ IF ~Truthy(firstName)
          THEN [stopped |-> "firstName", notice |-> "Invalid first name.",
                cardData |-> Null]
        ELSE IF ~Truthy(lastName)
          THEN [stopped |-> "lastName", notice |-> "Invalid last name.",
                cardData |-> Null]
        ELSE IF getEmailErrors(inputs.email) # <<>>
          THEN [stopped |-> "email", notice |-> "Email invalid:", cardData |-> Null]
        ELSE IF countryCode = <<>>
          THEN [stopped |-> "countryCode", notice |-> "Please choose a country code.",
                cardData |-> Null]
        ELSE IF countryCode \notin ALLOWED_COUNTRY_CODES
          THEN [stopped |-> "countryCode", notice |-> "Country code is not allowed.",
                cardData |-> Null]
        ELSE IF Len(localNumber) # 10
          THEN [stopped |-> "localNumber",
                notice |-> "Phone number must be exactly 10 digits.", cardData |-> Null]
        ELSE IF ~AllDigits(localNumber, 1, 10)
          THEN [stopped |-> "localNumber",
                notice |-> "Phone number can contain digits only.", cardData |-> Null]
        ELSE [stopped |-> "", notice |-> "",
              cardData |-> FormCard(inputs, firstName, lastName, StrV(countryCode),
                                    StrV(localNumber), OrElse(upload, StrV(src)), now)] :
          firstName \in {formatName(inputs.firstName, FALSE)},
          lastName \in {formatName(inputs.lastName, TRUE)},
          countryCode \in {Trim(inputs.countryCode)},
          localNumber \in {Trim(inputs.localNumber)} })

AlertCardSaved == "Your card has been saved!"

\* saveSettings(), a click on the save button of the settings panel
SaveSettings ==
  /\ Loaded
  /\ \E now \in Clock, stores \in BOOLEAN :
     \E made \in {FormChecked(form, UploadValue(uploadedImageData),
                              view.profilePicUrl, now)} :
       IF made.stopped # ""
       THEN /\ Ran("saveSettings", "none", <<made.notice>>, FALSE)
            /\ UNCHANGED <<myCard, view, form, shown, uploadedImageData>>
       ELSE IF ~stores
       THEN /\ Ran("saveSettings", "failed", <<AlertStorageFull>>, FALSE)
            /\ UNCHANGED <<myCard, view, form, shown, uploadedImageData>>
       ELSE \E applied \in {applyCardData(made.cardData, viewingSharedCard, view, form)} :
              /\ myCard' = Revived(made.cardData)
              /\ view' = applied.view
              /\ form' = applied.form
              /\ shown' = IF applied.threw THEN shown ELSE applied.cardData
              /\ uploadedImageData' = IF applied.threw THEN uploadedImageData
                                      ELSE NoUpload
              /\ Ran("saveSettings", "ok",
                     IF applied.threw THEN <<>> ELSE <<AlertCardSaved>>, applied.threw)
  /\ UNCHANGED <<codecVars, link, sharePanelActive, qrRuns, qrContainer, cropState,
                 cropImage, zoomSlider, cropModalActive, listeners, reading,
                 profilePicInput, cropSteps, savedContacts, backToMyCard,
                 locationSearch, arrival, viewingSharedCard, sharedCardData,
                 visitorUI, escaped, pagePc, utilVars>>

\* What the input listeners leave of a text typed into an input of the form
\* (initializeInputValidation): the name inputs drop every character that
\* is not allowed, the e-mail input lower-cases, drops what is not allowed
\* and takes the digits out of what follows the first @, and the local number
\* keeps ten digits at most.
KeepOnly(text, Allowed(_)) == SelectSeq(text, Allowed)

IsFirstNameUnit(c) == IsLetter(c) \/ c \in {39, 45}
IsLastNameUnit(c) == IsLetter(c) \/ c \in {39, 45, 32}
IsEmailUnit(c) == IsLower(c) \/ IsDigit(c) \/ c \in {64, 46, 95, 45}
NotDigit(c) == ~IsDigit(c)

EmailFiltered(text) ==
  The({ IF \A i \in 1..Len(value) : value[i] # 64 THEN value
        ELSE The({ SubSeq(value, 1, at) \o
                     KeepOnly(SubSeq(value, at + 1, Len(value)), NotDigit) :
                       at \in {CHOOSE i \in 1..Len(value) :
                                 value[i] = 64 /\ \A k \in 1..(i - 1) : value[k] # 64} }) :
          value \in {KeepOnly(toLowerCase(text), IsEmailUnit)} })

Typed(input, text) ==
  CASE input = "firstName" -> KeepOnly(text, IsFirstNameUnit)
    [] input = "lastName" -> KeepOnly(text, IsLastNameUnit)
    [] input = "email" -> EmailFiltered(text)
    [] input = "localNumber" -> Slice(KeepOnly(text, IsDigit), 0, 10)
    [] OTHER -> text

\* The texts the user types, and the options chosen.
Typing ==
  { <<"firstName", Str("john")>>, <<"firstName", Str("4")>>,
    <<"lastName", Str("o'brien-smith")>>, <<"lastName", Str("")>>,
    <<"email", Str("Ann@x")>>,
    <<"countryCode", Str("")>>,
    <<"localNumber", Str("(415) 555-012")>>,
    <<"cardColor", Str("#ABC")>>,
    <<"bgColor", Str(" #A1B2C3")>> }

\* An input event of the settings form: the user typed text into the input,
\* or chose it, and the input's listeners ran.  A colour text and its
\* picker set each other (initializeColorPickers).
Edit(input, text) ==
  /\ Loaded
  /\ form' =
       CASE input = "cardColor" ->
              [form EXCEPT !.cardColor = text,
                           !.cardColorPicker = ColorInputValue(StrV(text))]
         [] input = "bgColor" ->
              [form EXCEPT !.bgColor = text,
                           !.bgColorPicker = ColorInputValue(StrV(text))]
         [] input = "cardColorPicker" ->
              [form EXCEPT !.cardColor = text, !.cardColorPicker = text]
         [] OTHER -> [form EXCEPT ![input] = Typed(input, text)]
  /\ Ran("input", "none", <<>>, FALSE)
  /\ UNCHANGED <<exceptSession, myCard, savedContacts, backToMyCard, locationSearch,
                 arrival, viewingSharedCard, sharedCardData, view, shown, visitorUI,
                 escaped, pagePc>>

NextSession ==
  \/ CheckForSharedCard
  \/ \E a \in Visits : Navigate(a)
  \/ SaveContact
  \/ \E index \in 0..(MaxSessionSteps - 1) : ViewContact(index)
  \/ ReturnToMyCard
  \/ \E index \in 0..(MaxSessionSteps - 1), confirmed \in BOOLEAN :
       DeleteContact(index, confirmed)
  \/ \E confirmed \in BOOLEAN : ResetToJohnDoe(confirmed)
  \/ SaveSettings

SpecSession == InitSession /\ [][NextSession]_vars

\* The settings panel: the user's own page or a shared card is open; the
\* user chooses a photo first, then edits the form and saves or resets.  The
\* crop modal covers the panel while it is open, and an edit is followed by
\* another handler.
InitSettings ==
  /\ InitSession
  /\ locationSearch \in {AppPage.search, AnnLeeLink.search}
  /\ myCard \in {Null, CardOf(Str("Caf"), RemotePhoto, "two-slot", "set", TRUE)}

ChoosingPhoto == pagePc = "loaded" /\ sessionSteps = 0
PanelFree == ~cropModalActive /\ reading = <<>>

NextSettings ==
  \/ CheckForSharedCard
  \/ (PanelFree /\ Navigate(AppPage))
  \/ \E typed \in Typing :
       PanelFree /\ sessionSteps + 1 < MaxSessionSteps /\ Edit(typed[1], typed[2])
  \/ (ChoosingPhoto /\ cropSteps.files = 0 /\ SelectFile("square.png"))
  \/ (ChoosingPhoto /\ FileRead(1))
  \/ (ChoosingPhoto /\ ImageLoad)
  \/ (ChoosingPhoto /\ SaveCrop)
  \/ (PanelFree /\ SaveSettings)
  \/ \E confirmed \in BOOLEAN : PanelFree /\ ResetToJohnDoe(confirmed)

SpecSettings == InitSettings /\ [][NextSettings]_vars

(***************************************************************************)
(* part_000: saveSettings over what the phone fields of the form hold      *)
(***************************************************************************)

\* What #countryCodeSelect and #localNumberInput hold when the save button is
\* clicked.  saveSettings reads the two values as they are, so they are
\* taken from texts of every kind its checks tell apart.
CountryCodeValues ==
  ALLOWED_COUNTRY_CODES
  \cup { <<>>, Str("2"), Str("+1"), Str("001"), Str(" 44 "), Str("  ") }

LocalNumberValues ==
  { <<>>, Str("415555012"), Str("4155550123"), Str("41555501234"),
    Str("415555012a"), Str("415 555 01"), Str("(415)55501"), Str(" 4155550123 "),
    Str("4155550123") \o <<10>>,
    <<65300, 65297, 65301, 65301, 65301, 65301, 65296, 65297, 65298, 65299>> }

\* The user's own page, loaded with no stored card, and the phone fields.
InitPhone ==
  /\ CodecIdle
  /\ ShareIdle
  /\ CropIdle
  /\ HomeIdle
  /\ UtilIdle
  /\ locationSearch = AppPage.search
  /\ arrival = [kind |-> AppPage.kind, sent |-> AppPage.sent]
  /\ viewingSharedCard = FALSE
  /\ sharedCardData = Null
  /\ \E mine \in {loadMyCard(Null, MarkupView, MarkupForm)},
        countryCode \in CountryCodeValues, localNumber \in LocalNumberValues :
       /\ view = mine.applied.view
       /\ shown = mine.applied.cardData
       /\ form = [mine.applied.form EXCEPT !.countryCode = countryCode,
                                           !.localNumber = localNumber]
  /\ visitorUI = FALSE
  /\ escaped = FALSE
  /\ pagePc = "loaded"

NextPhone == SaveSettings

SpecPhone == InitPhone /\ [][NextPhone]_vars

(***************************************************************************)
(* js/utils.js: formatName and fixUrl applied to their own results         *)
(***************************************************************************)

MaxNameLen == 3
MaxCalls == 2

\* The characters the typed names are made of: a lower-case and an upper-case
\* letter (which spell the particle "de"), the apostrophe, the hyphen and the
\* space.
NameUnits == {100, 69, 39, 45, 32}

TypedNames ==
  UNION { [1..n -> NameUnits] : n \in 0..MaxNameLen }
  \cup { Str("o'brien-smith"), Str(" van  DER o'brien-smith "), Str("mary ann"),
         Str("DE LA cruz"), <<9>> \o Str("mcDonald") \o <<10>>, Str("x4"),
         Str("abcdefghijklmnopqrstuvwxyzabcde"), Str("abcdefghijklmnopqrstuvwxyzabcd") }

TypedUrls ==
  { <<>>, Str("  "), <<9, 10>>, Str("x.co"), Str(" x.co/a b "), Str("http://x.co"),
    Str("https://x.co"), Str(" https://x.co "), Str("HTTP://x.co"), Str("HttpS://x.co"),
    Str("http:/x.co"), Str("https//x.co"), Str("ftp://x.co"), Str("//x.co"),
    Str("https://"), Str("http://"), Str("https:// "), Str("xhttps://x.co"),
    Str("https://https://x.co"), Str("mailto:a@x.co") }

InitNormal ==
  /\ normaliser \in
       [fn : {"formatName"}, isLastName : BOOLEAN, input : TypedNames,
        outputs : {<<>>}]
       \cup [fn : {"fixUrl"}, isLastName : {FALSE}, input : TypedUrls,
             outputs : {<<>>}]
  /\ CodecIdle
  /\ ShareIdle
  /\ PageIdle
  /\ CropIdle
  /\ HomeIdle

exceptNormal == <<codecVars, shareVars, pageVars, cropVars, homeVars>>

\* What the next call is handed: the input, and then the result of the call
\* before.
Argument ==
  IF normaliser.outputs = <<>> THEN StrV(normaliser.input)
  ELSE normaliser.outputs[Len(normaliser.outputs)]

\* formatName(name, isLastName); name.trim() of a null result throws.
FormatName ==
  /\ normaliser.fn = "formatName"
  /\ Len(normaliser.outputs) < MaxCalls
  /\ Argument.t = "string"
  /\ normaliser' = [normaliser EXCEPT
                      !.outputs = Append(@, formatName(Argument.s,
                                                       normaliser.isLastName))]
  /\ UNCHANGED exceptNormal

\* fixUrl(url)
FixUrl ==
  /\ normaliser.fn = "fixUrl"
  /\ Len(normaliser.outputs) < MaxCalls
  /\ normaliser' = [normaliser EXCEPT !.outputs = Append(@, StrV(fixUrl(Argument.s)))]
  /\ UNCHANGED exceptNormal

NextNormal == FormatName \/ FixUrl

SpecNormal == InitNormal /\ [][NextNormal]_vars

(***************************************************************************)
(* Properties of the session                                               *)
(***************************************************************************)

\* The step is a run of the handler named.
Stepped(name) == sessionSteps' = sessionSteps + 1 /\ lastOp'.name = name

\* The (firstName, lastName, email) triple of a contact.
Triple(contact) ==
  <<Get(contact, kFirstName), Get(contact, kLastName), Get(contact, kEmail)>>

Matches(contact) ==
  \E i \in 1..Len(savedContacts) : Triple(savedContacts[i]) = Triple(contact)

\* C14. Contact uniqueness: from an empty list on, no two stored contacts
\* have the same (firstName, lastName, email) triple, and a saveContact of a
\* card whose triple a stored contact has writes nothing, leaves the stored
\* list as it is, and reports the failure of addContact.
ContactsUnique ==
  /\ [](\A i, j \in 1..Len(savedContacts) :
          Triple(savedContacts[i]) = Triple(savedContacts[j]) => i = j)
  /\ [][(Stepped("saveContact") /\ Truthy(sharedCardData) /\ Matches(sharedCardData))
          => /\ savedContacts' = savedContacts
             /\ lastOp'.write = "none"
             /\ lastOp'.alerts = <<AlertDuplicate>>]_vars

\* A card with a job title was refused because the stored contact of the
\* same triple, which has none, is there.
ContactsUniqueWitness ==
  /\ lastOp.name = "saveContact"
  /\ lastOp.alerts = <<AlertDuplicate>>
  /\ \E i \in 1..Len(savedContacts) :
       /\ Triple(savedContacts[i]) = Triple(sharedCardData)
       /\ Truthy(Get(sharedCardData, kJobTitle))
       /\ ~HasKey(savedContacts[i], kJobTitle)

(***************************************************************************)
(* Properties of saveSettings                                              *)
(***************************************************************************)

\* The five rules of the form: both names format, the e-mail has no error,
\* the country code is a listed one and the local number is ten digits.
FormValid(inputs) ==
  /\ formatName(inputs.firstName, FALSE) # Null
  /\ formatName(inputs.lastName, TRUE) # Null
  /\ getEmailErrors(inputs.email) = <<>>
  /\ Trim(inputs.countryCode) \in ALLOWED_COUNTRY_CODES
  /\ Len(Trim(inputs.localNumber)) = 10
  /\ AllDigits(Trim(inputs.localNumber), 1, 10)

\* The member names of an object, in order.
Keys(v) == [i \in 1..Len(v.o) |-> v.o[i][1]]

CardKeys ==
  << kFirstName, kLastName, kJobTitle, kEmail, kPhone, kPhoneE164, kCountryCode,
     kLocalNumber, kLinkedin, kCardColor, kBgColor, kProfilePic, kPortfolioLinks,
     kPortfolioVisibility, kLastUpdated >>

\* stored is a card with the fields of a card and no other, each set from
\* the form inputs, its photo being the upload when there is one.
RebuiltFrom(stored, inputs, upload) ==
  /\ Keys(stored) = CardKeys
  /\ Get(stored, kFirstName) = formatName(inputs.firstName, FALSE)
  /\ Get(stored, kLastName) = formatName(inputs.lastName, TRUE)
  /\ Get(stored, kJobTitle) = StrV(inputs.jobTitle)
  /\ Get(stored, kEmail) = StrV(toLowerCase(Trim(inputs.email)))
  /\ Get(stored, kCountryCode) = StrV(Trim(inputs.countryCode))
  /\ Get(stored, kLocalNumber) = StrV(Trim(inputs.localNumber))
  /\ Get(stored, kPhoneE164) =
       StrV(<<43>> \o Trim(inputs.countryCode) \o Trim(inputs.localNumber))
  /\ Get(stored, kLinkedin) = StrV(fixUrl(inputs.linkedin))
  /\ Get(Get(stored, kPortfolioLinks), kWork) = StrV(fixUrl(inputs.work))
  /\ Get(Get(Get(stored, kPortfolioLinks), kResume), kPdf)
       = StrV(fixUrl(inputs.resumePdf))
  /\ \A i \in 1..Len(PortfolioTypes) :
       Get(Get(stored, kPortfolioVisibility), PortfolioTypes[i])
         = Checked(inputs, PortfolioTypes[i])
  /\ (upload # NoUpload => Get(stored, kProfilePic) = toDataURL(upload))

\* C15. saveSettings is all-or-nothing: a run over a form that breaks one of
\* the five rules, or whose storage write fails, leaves the stored card, the
\* card elements and the pending upload as they were; any other run stores a
\* card rebuilt from the form alone, shows that card, and clears the pending
\* upload.
SettingsAllOrNothing ==
  [][Stepped("saveSettings") =>
       IF ~FormValid(form) \/ lastOp'.write = "failed"
       THEN /\ myCard' = myCard
            /\ view' = view
            /\ uploadedImageData' = uploadedImageData
       ELSE /\ lastOp'.write = "ok"
            /\ RebuiltFrom(myCard', form, uploadedImageData)
            /\ view' = Rendered(myCard')
            /\ uploadedImageData' = NoUpload]_vars

\* A save stored the photo that was pending and cleared it.
SettingsAllOrNothingWitness ==
  /\ lastOp.name = "saveSettings"
  /\ lastOp.write = "ok"
  /\ uploadedImageData = NoUpload
  /\ IsEmbeddedImage(Get(myCard, kProfilePic))
  /\ view = Rendered(myCard)

\* C16. Every failed write to localStorage, of 'myCard' and of
\* 'savedContacts' alike, is caught and tells the user that the storage is
\* full: the handler whose write failed threw nothing and showed the
\* storage-full message.
FailedWriteNoticed ==
  lastOp.write = "failed"
    => /\ ~lastOp.threw
       /\ \E i \in 1..Len(lastOp.alerts) : lastOp.alerts[i] = AlertStorageFull

\* The step answers the confirm() of resetToJohnDoe with yes, and with no.
ConfirmedReset == Stepped("resetToJohnDoe") /\ lastOp'.alerts = <<AlertReset>>
DeclinedReset == Stepped("resetToJohnDoe") /\ lastOp'.alerts = <<>>

\* The step runs loadMyCard(): a page load that does not end in viewing
\* mode, returnToMyCard, or a saveContact that added the contact.
LoadsMyCard ==
  \/ (pagePc = "loading" /\ pagePc' = "loaded" /\ ~viewingSharedCard')
  \/ Stepped("returnToMyCard")
  \/ (Stepped("saveContact") /\ lastOp'.alerts = <<AlertSaved>>)

DecodedParam ==
  The({ IF Truthy(cardData) THEN decodeObj(cardData.s)
        ELSE [ok |-> FALSE, v |-> Undefined] :
          cardData \in {SearchParam(locationSearch, Str("card"))} })

PageLoads == pagePc = "loading" /\ pagePc' = "loaded"

\* The step leaves viewing mode within one page.
LeavesViewing == viewingSharedCard /\ ~viewingSharedCard' /\ pagePc' = "loaded"

ExplicitReturn ==
  \/ (Stepped("saveContact") /\ lastOp'.alerts = <<AlertSaved>>)
  \/ Stepped("returnToMyCard")
  \/ ConfirmedReset

\* C18, as stated. Viewing mode lasts until an explicit return: a page load
\* with a card parameter that decodeObj decodes ends in viewing mode, and the
\* mode is left only by a saveContact that added the contact, by
\* returnToMyCard or by a confirmed reset.
ViewingUntilReturnAsStated ==
  [][/\ (PageLoads /\ DecodedParam.ok) => viewingSharedCard'
     /\ LeavesViewing => ExplicitReturn]_vars

\* C18, amended. A page load ends in viewing mode exactly when its card
\* parameter decodes to a value that applyCardData applies without throwing;
\* the mode is left only by a saveContact that added the contact, by
\* returnToMyCard or by a confirmed reset.
ViewingUntilReturn ==
  [][/\ PageLoads
          => (viewingSharedCard'
                <=> (DecodedParam.ok /\ applyThrowsAt(DecodedParam.v, TRUE) = 0))
     /\ LeavesViewing => ExplicitReturn]_vars

\* The visitor of a shared card looked at a saved contact, and a save of the
\* settings was refused: the session is still in viewing mode.
ViewingUntilReturnWitness ==
  /\ viewingSharedCard
  /\ backToMyCard
  /\ lastOp.name = "saveSettings"
  /\ sessionSteps >= 3
  /\ Truthy(sharedCardData)

\* v is a # and six hex digits in lower case.
IsColour(v) ==
  /\ v.t = "string"
  /\ Len(v.s) = 7
  /\ v.s[1] = 35
  /\ \A i \in 2..7 : IsDigit(v.s[i]) \/ (v.s[i] >= 97 /\ v.s[i] <= 102)

\* The card saveSettings stored has the colours of the form.
SavedColours ==
  (lastOp.name = "saveSettings" /\ lastOp.write = "ok")
    => /\ IsColour(Get(myCard, kCardColor))
       /\ IsColour(Get(myCard, kBgColor))

\* C19. Colour invariant: the cardColor and the bgColor of DEFAULT_CARD, and
\* of every card saveSettings stores, are a # and six lower-case hex digits.
ColourInvariant ==
  /\ IsColour(Get(DEFAULT_CARD, kCardColor))
  /\ IsColour(Get(DEFAULT_CARD, kBgColor))
  /\ SavedColours

\* A word as the claim capitalises it: lower case, with the first letter of
\* every piece between hyphens and apostrophes in upper case; a particle
\* stays in lower case.
CapitalizedBoth(word) ==
  The({ IF lower \in particles THEN lower
        ELSE [i \in 1..Len(lower) |->
                IF i = 1 \/ lower[i - 1] \in {45, 39}
                THEN UpperUnit(lower[i]) ELSE lower[i]] :
          lower \in {toLowerCase(word)} })

\* A valid name as the claim formats it.
NameAsClaimed(name, isLastName) ==
  The({ Join([i \in 1..Len(words) |-> CapitalizedBoth(words[i])], 32) :
          words \in {IF isLastName
                     THEN Split(ReplaceSpaceRuns(Trim(name), <<32>>), 32)
                     ELSE <<ReplaceSpaceRuns(Trim(name), <<>>)>>} })

\* C20. Name capitalisation: the names saveSettings stores are the names of
\* the form with every hyphen- or apostrophe-delimited piece capitalised,
\* particles apart; first name "john" and last name "o'brien-smith" are
\* stored as "John" and "O'Brien-Smith".
NameCapitalised ==
  [][(Stepped("saveSettings") /\ lastOp'.write = "ok")
       => /\ Get(myCard', kFirstName).s = NameAsClaimed(form.firstName, FALSE)
          /\ Get(myCard', kLastName).s = NameAsClaimed(form.lastName, TRUE)
          /\ (form.firstName = Str("john") /\ form.lastName = Str("o'brien-smith"))
               => /\ Get(myCard', kFirstName).s = Str("John")
                  /\ Get(myCard', kLastName).s = Str("O'Brien-Smith")]_vars

(***************************************************************************)
(* Properties of the normalisers                                           *)
(***************************************************************************)

\* formatName of a valid result is that result again.
FormatNameFixed ==
  (normaliser.fn = "formatName" /\ Len(normaliser.outputs) >= 2)
    => /\ normaliser.outputs[1] # Null
       /\ normaliser.outputs[2] = normaliser.outputs[1]

\* fixUrl of a result is that result again.
FixUrlFixed ==
  (normaliser.fn = "fixUrl" /\ Len(normaliser.outputs) >= 2)
    => normaliser.outputs[2] = normaliser.outputs[1]

\* C21 as stated: formatName and fixUrl are idempotent, and fixUrl(u) is empty
\* for an empty or blank u and otherwise starts with "http://" or "https://",
\* in these letters.
NormalisersIdempotentAsStated ==
  /\ FormatNameFixed
  /\ FixUrlFixed
  /\ (normaliser.fn = "fixUrl" /\ Len(normaliser.outputs) >= 1)
       => IF Trim(normaliser.input) = <<>>
          THEN normaliser.outputs[1] = StrV(<<>>)
          ELSE \/ StartsWith(normaliser.outputs[1].s, Str("http://"))
               \/ StartsWith(normaliser.outputs[1].s, Str("https://"))

\* C21 (amended): for every string s and flag b with formatName(s, b) not null,
\* formatName(formatName(s, b), b) = formatName(s, b); for every string u,
\* fixUrl(fixUrl(u)) = fixUrl(u), where fixUrl(u) is empty for an empty or blank
\* u and otherwise starts with "http://" or "https://" written in any mix of
\* upper and lower case.
NormalisersIdempotent ==
  /\ FormatNameFixed
  /\ FixUrlFixed
  /\ (normaliser.fn = "fixUrl" /\ Len(normaliser.outputs) >= 1)
       => IF Trim(normaliser.input) = <<>>
          THEN normaliser.outputs[1] = StrV(<<>>)
          ELSE \/ StartsWith(toLowerCase(normaliser.outputs[1].s), Str("http://"))
               \/ StartsWith(toLowerCase(normaliser.outputs[1].s), Str("https://"))

\* A last name of several words was formatted, and formatted again.
NormalisersIdempotentWitness ==
  /\ normaliser.fn = "formatName"
  /\ normaliser.isLastName
  /\ normaliser.input = Str(" van  DER o'brien-smith ")
  /\ normaliser.outputs = <<StrV(Str("van der O'brien-Smith")),
                            StrV(Str("van der O'brien-Smith"))>>

(***************************************************************************)
(* Properties of the phone fields                                          *)
(***************************************************************************)

\* countryCode is on the list and localNumber is ten ASCII digits.
PhoneValid(countryCode, localNumber) ==
  /\ countryCode \in {Str("1"), Str("44"), Str("61"), Str("81"), Str("91"), Str("353")}
  /\ Len(localNumber) = 10
  /\ \A i \in 1..10 : localNumber[i] \in 48..57

\* '+cc (ddd) ddd-dddd'
PrettyOf(countryCode, localNumber) ==
  Str("+") \o countryCode \o Str(" (") \o SubSeq(localNumber, 1, 3) \o Str(") ")
    \o SubSeq(localNumber, 4, 6) \o Str("-") \o SubSeq(localNumber, 7, 10)

\* The phone fields of a card are valid and agree with each other.
PhoneOfCard(cardData) ==
  /\ Get(cardData, kCountryCode).t = "string"
  /\ Get(cardData, kLocalNumber).t = "string"
  /\ \E countryCode \in {Get(cardData, kCountryCode).s},
        localNumber \in {Get(cardData, kLocalNumber).s} :
       /\ PhoneValid(countryCode, localNumber)
       /\ Get(cardData, kPhoneE164) = StrV(Str("+") \o countryCode \o localNumber)
       /\ Get(cardData, kPhone) = StrV(PrettyOf(countryCode, localNumber))

\* C22: saveSettings writes a card only when the country code it read is on
\* the list {1, 44, 61, 81, 91, 353} and the local number it read is exactly
\* ten ASCII digits; a save with any other phone fields leaves the stored card
\* as it was and writes nothing; and every card saveSettings has written has a
\* listed countryCode, a localNumber of ten digits, phoneE164 = '+' +
\* countryCode + localNumber and phone = '+cc (ddd) ddd-dddd' of these digits.
PhoneInvariant ==
  /\ []((lastOp.name = "saveSettings" /\ lastOp.write = "ok") => PhoneOfCard(myCard))
  /\ [][Stepped("saveSettings")
          => /\ (lastOp'.write # "none" \/ myCard' # myCard)
                  => PhoneValid(Trim(form.countryCode), Trim(form.localNumber))
             /\ ~PhoneValid(Trim(form.countryCode), Trim(form.localNumber))
                  => /\ myCard' = myCard
                     /\ lastOp'.write = "none"
                     /\ lastOp'.alerts # <<AlertCardSaved>>]_vars

\* A card was written from the code 353 and ten digits.
PhoneInvariantWitness ==
  /\ lastOp.name = "saveSettings"
  /\ lastOp.write = "ok"
  /\ Get(myCard, kCountryCode) = StrV(Str("353"))
  /\ Get(myCard, kPhoneE164) = StrV(Str("+3534155550123"))
  /\ Get(myCard, kPhone) = StrV(Str("+353 (415) 555-0123"))

(***************************************************************************)
(* Further properties of the crop tool                                     *)
(***************************************************************************)

\* C23: on load the fitted size keeps the image's aspect ratio and has the
\* image's larger dimension equal to the viewport side (landscape: the width,
\* portrait: the height, square: both), so neither displayed dimension
\* exceeds the viewport side.
FittedWithinViewport ==
  [][ImageLoaded
       => \E natural \in {NaturalSize(cropImage'.current)} :
            /\ Times(cropImage'.width, Px(natural.height))
                 = Times(cropImage'.height, Px(natural.width))
            /\ natural.width >= natural.height => cropImage'.width = Px(ViewportSide)
            /\ natural.height >= natural.width => cropImage'.height = Px(ViewportSide)
            /\ ~Greater(cropImage'.width, Px(ViewportSide))
            /\ ~Greater(cropImage'.height, Px(ViewportSide))]_vars

\* The fitted size keeps the aspect ratio and has the smaller dimension
\* equal to the viewport side.
FittedCovers ==
  [][ImageLoaded
       => \E natural \in {NaturalSize(cropImage'.current)} :
            /\ Times(cropImage'.width, Px(natural.height))
                 = Times(cropImage'.height, Px(natural.width))
            /\ natural.width >= natural.height => cropImage'.height = Px(ViewportSide)
            /\ natural.height >= natural.width => cropImage'.width = Px(ViewportSide)]_vars

\* C24: a mousedown or touchstart on the viewport received while a drag is in
\* progress leaves the drag anchor, the offset and the dragging flag
\* unchanged.
BeginDragWhileDragging ==
  [][\A pt \in Points :
       (cropState.isDragging /\ (MouseDown(pt) \/ TouchStart(pt)))
         => /\ cropState'.dragStart = cropState.dragStart
            /\ cropState'.position = cropState.position
            /\ cropState'.isDragging = cropState.isDragging]_vars

\* A press received while a drag is in progress leaves the offset and the
\* dragging flag unchanged.
BeginDragKeepsOffset ==
  [][\A pt \in Points :
       (cropState.isDragging /\ (MouseDown(pt) \/ TouchStart(pt)))
         => /\ cropState'.position = cropState.position
            /\ cropState'.isDragging = cropState.isDragging]_vars

\* C25: cancelCrop puts the loaded image, the scale, the offset and the drag
\* flag back to their initial values and clears the file picker's value, and
\* leaves the pending upload, the photo shown and the stored card unchanged;
\* while the modal stays closed no pointer or touch event changes the crop
\* state.
CancelDiscards ==
  /\ [][CancelCrop
          => /\ cropState'.originalImage = InitialCropState.originalImage
             /\ cropState'.scale = InitialCropState.scale
             /\ cropState'.position = InitialCropState.position
             /\ cropState'.isDragging = InitialCropState.isDragging
             /\ profilePicInput' = ""
             /\ UNCHANGED <<uploadedImageData, view, myCard>>]_vars
  /\ [][(~cropModalActive /\ ~cropModalActive' /\ ~ImageLoaded)
          => cropState' = cropState]_vars

\* cancelCrop clears the file picker's value and leaves the pending upload,
\* the photo shown and the stored card unchanged.
CancelKeepsRest ==
  [][CancelCrop
       => /\ profilePicInput' = ""
          /\ UNCHANGED <<uploadedImageData, view, myCard>>]_vars

\* While the modal stays closed no pointer or touch event (no step but the
\* load event of the image) changes the crop state.
ClosedModalIsStill ==
  [][(~cropModalActive /\ ~cropModalActive' /\ ~ImageLoaded)
          => cropState' = cropState]_vars

(***************************************************************************)
(* Further properties of the session                                       *)
(***************************************************************************)

\* The page load applied the card of the link.
SharedCardApplied == pagePc = "loading" /\ pagePc' = "loaded" /\ viewingSharedCard'

\* C26: applying a decoded shared card, or a saved contact through
\* viewContact, never changes the fields of the settings form.
FormOnlyFromOwnCard ==
  [][/\ SharedCardApplied => form' = form
     /\ Stepped("viewContact") => form' = form]_vars

\* Applying a decoded shared card, or a saved contact while a shared card is
\* viewed, never changes the fields of the settings form.
FormKeptWhileVisiting ==
  [][/\ SharedCardApplied => form' = form
     /\ (Stepped("viewContact") /\ viewingSharedCard) => form' = form]_vars

\* C27: in every reachable state sharedCardData is non-null only while
\* viewingSharedCard is true.
FlagsConsistent == sharedCardData # Null => viewingSharedCard

\* After a successful saveContact and after a confirmed reset the session is
\* in my-card mode with sharedCardData null.
ExplicitReturnsClear ==
  [][((Stepped("saveContact") /\ savedContacts' # savedContacts) \/ ConfirmedReset)
       => (~viewingSharedCard' /\ sharedCardData' = Null)]_vars

(***************************************************************************)
(* Further properties of the QR code                                       *)
(***************************************************************************)

\* A callback of run r ran: its timeout, its load or its error completion.
CallbackOf(r) == QRTimeout(r) \/ QRImageLoad(r) \/ QRImageError(r)

\* C28: the callbacks of an earlier run of generateQRCode never change the QR
\* container once a later run has started, and once the image of the latest
\* run has loaded the container keeps showing it until the next run.
NoStaleCallback ==
  /\ [][\A r \in Runs : (r < Len(qrRuns) /\ CallbackOf(r))
          => qrContainer' = qrContainer]_vars
  /\ [][(/\ qrContainer = [kind |-> "image", run |-> Len(qrRuns), url |-> <<>>]
         /\ Len(qrRuns') = Len(qrRuns))
          => qrContainer' = qrContainer]_vars

\* While one run only has been made, the container keeps showing its image
\* once loaded.
SingleRunKeepsImage ==
  [][(/\ Len(qrRuns) = 1
      /\ qrContainer = [kind |-> "image", run |-> 1, url |-> <<>>]
      /\ Len(qrRuns') = 1)
       => qrContainer' = qrContainer]_vars

(***************************************************************************)
(* Further properties of the page                                          *)
(***************************************************************************)

\* The page load has rendered the card held in shown.
CardRendered == pagePc = "loaded" /\ ~escaped /\ shown.t = "object"

\* C29: for every card whose photo field is a non-empty string (a remote URL
\* or an embedded payload), DEFAULT_CARD among them, applyCardData sets the
\* displayed photo to exactly that value; the generated-initials placeholder
\* is displayed only when the card's photo field is empty or missing.
OwnPhotoShown ==
  CardRendered
    => \E pic \in {Get(shown, kProfilePic)} :
         /\ (pic.t = "string" /\ pic.s # <<>>) => view.profilePicUrl = pic.s
         /\ StartsWith(view.profilePicUrl, PlaceholderPrefix) => ~Truthy(pic)

\* An applyCardData call that completed displays a photo of more than 100
\* characters as it is, and the placeholder for every other card.
LongPhotoShown ==
  [][(shown' # shown /\ shown'.t = "object")
       => \E pic \in {Get(shown', kProfilePic)} :
            IF pic.t = "string" /\ Len(pic.s) > 100
            THEN view'.profilePicUrl = pic.s
            ELSE pic.t \in {"string", "undefined", "null"}
                   => StartsWith(view'.profilePicUrl, PlaceholderPrefix)]_vars

\* A card with a photo of more than 100 characters has been rendered.
LongPhotoRendered ==
  /\ shown.t = "object"
  /\ Len(Get(shown, kProfilePic).s) > 100
  /\ view.profilePicUrl = Get(shown, kProfilePic).s

\* The step is a saveSettings that wrote a card while no upload was pending.
SavedWithoutUpload ==
  Stepped("saveSettings") /\ lastOp'.write = "ok" /\ uploadedImageData = NoUpload

\* C30: a successful saveSettings made while the pending-upload buffer is
\* empty stores the photo of the card stored before (the photo of
\* DEFAULT_CARD when none was stored), whichever card is displayed.
SaveKeepsPhoto ==
  [][SavedWithoutUpload
       => Get(myCard', kProfilePic)
            = Get(IF myCard = Null THEN DEFAULT_CARD ELSE myCard, kProfilePic)]_vars

\* A successful saveSettings made while the pending-upload buffer is empty
\* stores the address of the photo displayed.
SaveStoresDisplayedPhoto ==
  [][SavedWithoutUpload => Get(myCard', kProfilePic) = StrV(view.profilePicUrl)]_vars

=============================================================================
